---------------------------- MODULE Spec2Model ----------------------------
(***************************************************************************)
(* A model of the social network analyser: the in-memory store of          *)
(* SocialNetworkAnalyzer (main.py), its ingestion calls, the suspicion     *)
(* scorer, the suspicious-subnetwork extractor, the report aggregator and  *)
(* the content risk classifier of ContentAnalyzer (content_analyzer.py).   *)
(*                                                                         *)
(* Numbers.  The code computes in binary doubles.  The model computes the  *)
(* same expressions in exact rationals <<numerator, denominator>>.  For    *)
(* the classifier the doubles differ from the rationals by rounding only   *)
(* (0.1 + 0.2 is 0.30000000000000004) and no rounded sum lands on the      *)
(* other side of a level boundary.  For the scorer the rounded threshold   *)
(* differs from the exact one at ages 33, 39 and 42, which decides a       *)
(* comparison only for a ratio equal to the threshold, i.e. for logs of 25 *)
(* interactions or more: the logs of this model are shorter.               *)
(*                                                                         *)
(* Time.  datetime.now() values (registration_date, timestamps) are wall   *)
(* clock readings; they are left out of the records.                       *)
(***************************************************************************)
EXTENDS Integers, Sequences, FiniteSets, TLC

VARIABLES
    graph,             \* self.graph: [nodes : set of ids, edges : unordered pair -> attributes]
    user_profiles,     \* self.user_profiles: id -> profile (a dict)
    profile_order,     \* insertion order of the keys of self.user_profiles
    content_data,      \* self.content_data: content id -> content record
    op,                \* the last call made: [call, args]
    before,            \* the analyzer object as that call found it
    ok,                \* what add_content_interaction returned last
    suspicious_users,  \* what detect_suspicious_content_patterns returned last
    report,            \* what generate_risk_report returned last (or the error it raised)
    content_metadata,  \* the argument of the last classify_content_risk call
    risk,              \* what classify_content_risk returned last
    calls,             \* ingestion calls made since the store was loaded
    clusters,          \* what detect_content_consumption_clusters returned last
    runs,              \* the runs of detect_suspicious_content_patterns in progress:
                       \* run -> its position in the loop and its local list
    user_patterns      \* what analyze_user_content_patterns returned last

vars == <<graph, user_profiles, profile_order, content_data, op, before, ok,
          suspicious_users, report, content_metadata, risk, calls, clusters, runs,
          user_patterns>>

-----------------------------------------------------------------------------
(* Exact rationals for the code's float arithmetic. *)

Abs(n) == IF n < 0 THEN -n ELSE n

RECURSIVE GCD(_, _)
GCD(a, b) == IF b = 0 THEN a ELSE GCD(b, a % b)

\* The rational n/d (d > 0) in lowest terms.
Frac(n, d) == LET g == GCD(Abs(n), d) IN <<n \div g, d \div g>>

RAdd(p, q) == Frac(p[1] * q[2] + q[1] * p[2], p[2] * q[2])
RSub(p, q) == Frac(p[1] * q[2] - q[1] * p[2], p[2] * q[2])
RMul(p, q) == Frac(p[1] * q[1], p[2] * q[2])
RLt(p, q) == p[1] * q[2] < q[1] * p[2]
RLe(p, q) == p[1] * q[2] <= q[1] * p[2]
RMin(p, q) == IF RLt(q, p) THEN q ELSE p
RMax(p, q) == IF RLt(p, q) THEN q ELSE p
RInt(n) == <<n, 1>>

-----------------------------------------------------------------------------
(* Python dicts and strings. *)

\* d.get(k, default)
Get(d, k, default) == IF k \in DOMAIN d THEN d[k] ELSE default

\* d.update(e), returned
Update(d, e) ==
    [k \in DOMAIN d \cup DOMAIN e |-> IF k \in DOMAIN e THEN e[k] ELSE d[k]]

EmptyDict == <<>>

\* A string is a sequence of characters.  str.lower() maps each character:
\* the upper-case letters to their lower-case ones, every other to itself.
LowerCase ==
    [A |-> "a", B |-> "b", C |-> "c", D |-> "d", E |-> "e", F |-> "f", G |-> "g",
     H |-> "h", I |-> "i", J |-> "j", K |-> "k", L |-> "l", M |-> "m", N |-> "n",
     O |-> "o", P |-> "p", Q |-> "q", R |-> "r", S |-> "s", T |-> "t", U |-> "u",
     V |-> "v", W |-> "w", X |-> "x", Y |-> "y", Z |-> "z"]
     @@ ("Ç" :> "ç") @@ ("Ê" :> "ê")

LowerChar(c) == IF c \in DOMAIN LowerCase THEN LowerCase[c] ELSE c

RECURSIVE Lower(_)
Lower(s) == IF s = <<>> THEN <<>> ELSE <<LowerChar(Head(s))>> \o Lower(Tail(s))

\* keyword in text (substring search)
Contains(text, keyword) ==
    \E i \in 0..(Len(text) - Len(keyword)) :
        \A j \in 1..Len(keyword) : text[i + j] = keyword[j]

-----------------------------------------------------------------------------
(* ContentAnalyzer (content_analyzer.py). *)

\* self.risk_keywords['high_risk']
HighRiskKeywords ==
    << <<"c","r","i","a","n","ç","a">>, <<"m","e","n","i","n","o">>,
       <<"m","e","n","i","n","a">>, <<"b","e","b","ê">>,
       <<"i","n","f","a","n","t","i","l">>, <<"k","i","d","s">>,
       <<"c","h","i","l","d","r","e","n">> >>

\* self.risk_keywords['medium_risk']
MediumRiskKeywords ==
    << <<"j","o","v","e","m">>, <<"a","d","o","l","e","s","c","e","n","t","e">>,
       <<"t","e","e","n">>, <<"e","s","c","o","l","a">>, <<"s","c","h","o","o","l">> >>

\* the categories of the category rule
SuspiciousCategories ==
    { <<"k","i","d","s">>, <<"c","h","i","l","d","r","e","n">>,
      <<"f","a","m","i","l","y">>, <<"e","d","u","c","a","t","i","o","n","a","l">> }

\* A risk factor is a pair <<text, argument>>: the f-string's fixed text and the
\* value formatted into it (<<>> when the text is a literal).
Factor(text, arg) == <<text, arg>>

\* One `for keyword in ...: if keyword in text_content:` loop, from keyword i on.
\* acc is [risk_score, risk_factors].
RECURSIVE ScanKeywords(_, _, _, _, _, _)
ScanKeywords(keywords, i, text_content, weight, label, acc) ==
    IF i > Len(keywords) THEN acc
    ELSE ScanKeywords(keywords, i + 1, text_content, weight, label,
            IF Contains(text_content, keywords[i])
            THEN [risk_score |-> RAdd(acc.risk_score, weight),
                  risk_factors |-> Append(acc.risk_factors, Factor(label, keywords[i]))]
            ELSE acc)

\* _get_risk_level with > for >=
MutLevelStrict(score) ==
    IF RLt(Frac(7, 10), score) THEN "ALTO"
    ELSE IF RLt(Frac(4, 10), score) THEN "MÉDIO"
    ELSE IF RLt(Frac(2, 10), score) THEN "BAIXO"
    ELSE "MÍNIMO"

\* ContentAnalyzer._get_risk_level
_get_risk_level(score) ==
    IF RLe(Frac(7, 10), score) THEN "ALTO"
    ELSE IF RLe(Frac(4, 10), score) THEN "MÉDIO"
    ELSE IF RLe(Frac(2, 10), score) THEN "BAIXO"
    ELSE "MÍNIMO"

\* The age rule of classify_content_risk (the if/elif chain on target_age_max).
AgeRule(md) ==
    LET target_age_max == Get(md, "target_age_max", 100)
        zero == [risk_score |-> RInt(0), risk_factors |-> <<>>]
    IN  IF target_age_max <= 8
        THEN [risk_score |-> RAdd(zero.risk_score, Frac(8, 10)),
              risk_factors |-> <<Factor("Conteúdo para crianças muito pequenas", <<>>)>>]
        ELSE IF target_age_max <= 12
        THEN [risk_score |-> RAdd(zero.risk_score, Frac(6, 10)),
              risk_factors |-> <<Factor("Conteúdo infantil", <<>>)>>]
        ELSE IF target_age_max <= 16
        THEN [risk_score |-> RAdd(zero.risk_score, Frac(3, 10)),
              risk_factors |-> <<Factor("Conteúdo adolescente", <<>>)>>]
        ELSE zero

\* TextContent without the .lower()
MutTextContentNoLower(md) ==
    Get(md, "title", <<>>) \o <<" ">> \o Get(md, "description", <<>>)

\* text_content = f"{title} {description}".lower()
TextContent(md) ==
    Lower(Get(md, "title", <<>>) \o <<" ">> \o Get(md, "description", <<>>))

\* KeywordRules with the two loops swapped
MutKeywordRulesMediumFirst(md, acc) ==
    ScanKeywords(HighRiskKeywords, 1, TextContent(md), Frac(3, 10),
                 "Palavra-chave de alto risco",
                 ScanKeywords(MediumRiskKeywords, 1, TextContent(md), Frac(1, 10),
                              "Palavra-chave de médio risco", acc))

\* The two keyword loops, high risk first.
KeywordRules(md, acc) ==
    LET text_content == TextContent(md)
        high == ScanKeywords(HighRiskKeywords, 1, text_content, Frac(3, 10),
                             "Palavra-chave de alto risco", acc)
    IN  ScanKeywords(MediumRiskKeywords, 1, text_content, Frac(1, 10),
                     "Palavra-chave de médio risco", high)

CategoryRule(md, acc) ==
    LET category == Lower(Get(md, "category", <<>>))
    IN  IF category \in SuspiciousCategories
        THEN [risk_score |-> RAdd(acc.risk_score, Frac(2, 10)),
              risk_factors |-> Append(acc.risk_factors, Factor("Categoria suspeita", category))]
        ELSE acc

DurationRule(md, acc) ==
    LET duration == Get(md, "duration_seconds", 0)
    IN  IF 0 < duration /\ duration < 60
        THEN [risk_score |-> RAdd(acc.risk_score, Frac(1, 10)),
              risk_factors |-> Append(acc.risk_factors, Factor("Duração muito curta", <<>>))]
        ELSE acc

\* ContentAnalyzer.classify_content_risk
classify_content_risk(md) ==
    LET acc == DurationRule(md, CategoryRule(md, KeywordRules(md, AgeRule(md))))
    IN  [risk_score |-> RMin(RInt(1), acc.risk_score),
         risk_level |-> _get_risk_level(RMin(RInt(1), acc.risk_score)),
         risk_factors |-> acc.risk_factors]

-----------------------------------------------------------------------------
(* SocialNetworkAnalyzer (main.py): the store and its ingestion calls.      *)
(* An analyzer object is a record self = [graph, user_profiles,             *)
(* profile_order, content_data]; a call is an operator from the object to   *)
(* the object it leaves (and what it returns).                              *)

\* SocialNetworkAnalyzer.__init__
NewAnalyzer ==
    [graph |-> [nodes |-> {}, edges |-> EmptyDict],
     user_profiles |-> EmptyDict,
     profile_order |-> <<>>,
     content_data |-> EmptyDict]

\* d[k] = v on a dict
Put(d, k, v) == [x \in DOMAIN d \cup {k} |-> IF x = k THEN v ELSE d[x]]

\* add_user without the graph node
MutAddUserNoNode(self, user_id, age, profile_data) ==
    LET profile == [user_id |-> user_id,
                    age |-> age,
                    suspicious_score |-> RInt(0),
                    content_consumed |-> <<>>,
                    connections |-> <<>>]
        merged == IF profile_data # EmptyDict THEN Update(profile, profile_data)
                  ELSE profile
    IN  [self EXCEPT
            !.user_profiles = Put(@, user_id, merged),
            !.profile_order = IF user_id \in DOMAIN self.user_profiles THEN @
                              ELSE Append(@, user_id)]

\* SocialNetworkAnalyzer.add_user
add_user(self, user_id, age, profile_data) ==
    LET profile == [user_id |-> user_id,
                    age |-> age,
                    suspicious_score |-> RInt(0),
                    content_consumed |-> <<>>,
                    connections |-> <<>>]
        merged == IF profile_data # EmptyDict THEN Update(profile, profile_data)
                  ELSE profile
    IN  [self EXCEPT
            !.graph.nodes = @ \cup {user_id},
            !.user_profiles = Put(@, user_id, merged),
            !.profile_order = IF user_id \in DOMAIN self.user_profiles THEN @
                              ELSE Append(@, user_id)]

\* BothRegistered asking for one registered endpoint only
MutEitherRegistered(self, user1, user2) ==
    user1 \in DOMAIN self.user_profiles \/ user2 \in DOMAIN self.user_profiles

\* `if user1 in self.user_profiles and user2 in self.user_profiles`
BothRegistered(self, user1, user2) ==
    user1 \in DOMAIN self.user_profiles /\ user2 \in DOMAIN self.user_profiles

\* Listed appending an endpoint only where the list does not hold it yet
MutListedOnce(self, user1, user2) ==
    LET once(list, x) == IF \E i \in 1..Len(list) : list[i] = x THEN list
                         ELSE Append(list, x)
        one == [self EXCEPT !.user_profiles[user1].connections = once(@, user2)]
    IN  [one EXCEPT !.user_profiles[user2].connections = once(@, user1)]

\* the two appends to the connection lists
Listed(self, user1, user2) ==
    LET one == [self EXCEPT !.user_profiles[user1].connections = Append(@, user2)]
    IN  [one EXCEPT !.user_profiles[user2].connections = Append(@, user1)]

\* SocialNetworkAnalyzer.add_connection
add_connection(self, user1, user2, connection_type, weight) ==
    IF BothRegistered(self, user1, user2)
    THEN LET edged == [self EXCEPT
                 !.graph.nodes = @ \cup {user1, user2},
                 !.graph.edges = Put(@, {user1, user2},
                                     [connection_type |-> connection_type,
                                      weight |-> weight])]
         IN  Listed(edged, user1, user2)
    ELSE self

\* ContentAbsent answering yes for every content id
MutContentAbsentAlways(self, content_id) == TRUE

\* `if content_id not in self.content_data`
ContentAbsent(self, content_id) == content_id \notin DOMAIN self.content_data

\* SocialNetworkAnalyzer.add_content_interaction: [self, returned]
add_content_interaction(self, user_id, content_id, content_type, interaction_type, metadata) ==
    IF user_id \notin DOMAIN self.user_profiles
    THEN [self |-> self, returned |-> FALSE]
    ELSE LET interaction == [content_id |-> content_id,
                             content_type |-> content_type,
                             interaction_type |-> interaction_type,
                             metadata |-> metadata]
             logged == [self EXCEPT
                 !.user_profiles[user_id].content_consumed = Append(@, interaction)]
             stored == IF ContentAbsent(logged, content_id)
                       THEN [logged EXCEPT
                           !.content_data = Put(@, content_id,
                               [content_id |-> content_id,
                                content_type |-> content_type,
                                interactions |-> <<>>,
                                flags |-> <<>>,
                                metadata |-> metadata])]
                       ELSE logged
         IN  [self |-> [stored EXCEPT
                  !.content_data[content_id].interactions =
                      Append(@, [user_id |-> user_id,
                                 interaction_type |-> interaction_type])],
              returned |-> TRUE]

-----------------------------------------------------------------------------
(* The suspicion scorer. *)

\* the content types of the child-content test
ChildContentTypes == {"kids_video", "children_game", "educational_kids"}

\* IsChildContent reading the type only
MutIsChildContentTypeOnly(interaction) ==
    interaction.content_type \in ChildContentTypes

\* the test of the inner loop: is this interaction child content
IsChildContent(interaction) ==
    \/ interaction.content_type \in ChildContentTypes
    \/ Get(Get(interaction, "metadata", EmptyDict), "target_age_max", 100) < 13

\* the inner loop: child_content_count, the number of entries of
\* content_consumed that pass the test
CountChildContent(content_consumed) ==
    Cardinality({i \in 1..Len(content_consumed) : IsChildContent(content_consumed[i])})

\* SuspicionThreshold falling by 0.005 a year (0.4 at age 45)
MutSuspicionThresholdSlow(age) ==
    RMax(Frac(1, 10), RSub(Frac(1, 2), RMul(RInt(age - 25), Frac(5, 1000))))

\* suspicion_threshold = max(0.1, 0.5 - (age - 25) * 0.02)
SuspicionThreshold(age) ==
    RMax(Frac(1, 10), RSub(Frac(1, 2), RMul(RInt(age - 25), Frac(2, 100))))

\* Skipped without the age test
MutSkippedNoAge(profile) == Len(profile.content_consumed) = 0

\* the `continue` tests at the head of the loop body
Skipped(profile) ==
    \/ profile.age < 18
    \/ Len(profile.content_consumed) = 0

\* Flagged with >= for the ratio test
MutFlaggedNonStrict(child_content_ratio, suspicion_threshold, child_content_count) ==
    RLe(suspicion_threshold, child_content_ratio) /\ child_content_count > 5

\* the flagging test
Flagged(child_content_ratio, suspicion_threshold, child_content_count) ==
    RLt(suspicion_threshold, child_content_ratio) /\ child_content_count > 5

\* SuspicionScore without the cap
MutSuspicionScoreUncapped(child_content_ratio) == RMul(child_content_ratio, RInt(2))

\* suspicion_score = min(1.0, child_content_ratio * 2)
SuspicionScore(child_content_ratio) ==
    RMin(RInt(1), RMul(child_content_ratio, RInt(2)))

\* child_content_ratio = child_content_count / total_content_count
ChildContentRatio(profile) ==
    Frac(CountChildContent(profile.content_consumed), Len(profile.content_consumed))

\* SuspicionRecord adding the new score to the cached one
MutSuspicionRecordMerged(user_id, profile) ==
    [user_id |-> user_id,
     age |-> profile.age,
     child_content_ratio |-> ChildContentRatio(profile),
     child_content_count |-> CountChildContent(profile.content_consumed),
     total_content_count |-> Len(profile.content_consumed),
     suspicion_score |-> RMin(RInt(1), RAdd(profile.suspicious_score,
                                            SuspicionScore(ChildContentRatio(profile)))),
     connections_count |-> Len(profile.connections)]

\* the record appended for a flagged user
SuspicionRecord(user_id, profile) ==
    [user_id |-> user_id,
     age |-> profile.age,
     child_content_ratio |-> ChildContentRatio(profile),
     child_content_count |-> CountChildContent(profile.content_consumed),
     total_content_count |-> Len(profile.content_consumed),
     suspicion_score |-> SuspicionScore(ChildContentRatio(profile)),
     connections_count |-> Len(profile.connections)]

\* the loop body reaches its append and write-back for this profile
FlagsUser(profile) ==
    /\ ~Skipped(profile)
    /\ Flagged(ChildContentRatio(profile), SuspicionThreshold(profile.age),
               CountChildContent(profile.content_consumed))

\* `for user_id, profile in self.user_profiles.items()`: an iteration reads
\* and writes the profile of its own user only, so the loop appends the
\* records of the flagged users in the dict's order ...
SuspiciousRecords(self) ==
    LET flagged == SelectSeq(self.profile_order,
                             LAMBDA user_id : FlagsUser(self.user_profiles[user_id]))
    IN  [i \in 1..Len(flagged) |->
            SuspicionRecord(flagged[i], self.user_profiles[flagged[i]])]

\* WithScores resetting the score of a user it does not flag
MutWithScoresReset(self) ==
    LET scored(profile) ==
            IF FlagsUser(profile)
            THEN [profile EXCEPT
                     !.suspicious_score = SuspicionScore(ChildContentRatio(profile))]
            ELSE [profile EXCEPT !.suspicious_score = RInt(0)]
    IN  [self EXCEPT !.user_profiles =
            [user_id \in DOMAIN self.user_profiles |-> scored(self.user_profiles[user_id])]]

\* ... and writes the score of each back to its profile
WithScores(self) ==
    LET scored(profile) ==
            IF FlagsUser(profile)
            THEN [profile EXCEPT
                     !.suspicious_score = SuspicionScore(ChildContentRatio(profile))]
            ELSE profile
    IN  [self EXCEPT !.user_profiles =
            [user_id \in DOMAIN self.user_profiles |-> scored(self.user_profiles[user_id])]]

\* A run of the loop taken one iteration at a time.  The local state of a run:
\* how many items of self.user_profiles.items() it has consumed, its local
\* list suspicious_users, whether it has returned and what; `overlapped`
\* records that it made an iteration while another run was inside its loop.
NewRun ==
    [position |-> 0, suspicious_users |-> <<>>, returned |-> FALSE,
     result |-> <<>>, overlapped |-> FALSE]

\* Iteration skipping a user whose score is already cached
MutIterationSkipsScored(self, run) ==
    LET user_id == self.profile_order[run.position + 1]
        profile == self.user_profiles[user_id]
        next == [run EXCEPT !.position = run.position + 1]
    IN  IF FlagsUser(profile) /\ profile.suspicious_score = RInt(0)
        THEN [self |-> [self EXCEPT !.user_profiles[user_id].suspicious_score =
                                        SuspicionScore(ChildContentRatio(profile))],
              run |-> [next EXCEPT !.suspicious_users =
                                       Append(run.suspicious_users,
                                              SuspicionRecord(user_id, profile))]]
        ELSE [self |-> self, run |-> next]

\* one iteration of the loop: the next user is skipped, or their record is
\* appended to the run's list and their score written to the store
Iteration(self, run) ==
    LET user_id == self.profile_order[run.position + 1]
        profile == self.user_profiles[user_id]
        next == [run EXCEPT !.position = run.position + 1]
    IN  IF FlagsUser(profile)
        THEN [self |-> [self EXCEPT !.user_profiles[user_id].suspicious_score =
                                        SuspicionScore(ChildContentRatio(profile))],
              run |-> [next EXCEPT !.suspicious_users =
                                       Append(run.suspicious_users,
                                              SuspicionRecord(user_id, profile))]]
        ELSE [self |-> self, run |-> next]

\* InsertByScore placing x before the entries of its own score
RECURSIVE MutInsertBeforeTies(_, _)
MutInsertBeforeTies(sorted, x) ==
    IF sorted = <<>> THEN <<x>>
    ELSE IF RLe(sorted[Len(sorted)].suspicion_score, x.suspicion_score)
    THEN Append(MutInsertBeforeTies(SubSeq(sorted, 1, Len(sorted) - 1), x),
                sorted[Len(sorted)])
    ELSE Append(sorted, x)

\* sorted(list, key=suspicion_score, reverse=True): a stable sort, so records
\* of equal score keep their order.  Insert x after the last entry whose score
\* is not below x's.
RECURSIVE InsertByScore(_, _)
InsertByScore(sorted, x) ==
    IF sorted = <<>> THEN <<x>>
    ELSE IF RLt(sorted[Len(sorted)].suspicion_score, x.suspicion_score)
    THEN Append(InsertByScore(SubSeq(sorted, 1, Len(sorted) - 1), x),
                sorted[Len(sorted)])
    ELSE Append(sorted, x)

RECURSIVE SortedByScore(_)
SortedByScore(list) ==
    IF list = <<>> THEN <<>>
    ELSE InsertByScore(SortedByScore(SubSeq(list, 1, Len(list) - 1)),
                       list[Len(list)])

\* SocialNetworkAnalyzer.detect_suspicious_content_patterns: [self, returned]
detect_suspicious_content_patterns(self) ==
    [self |-> WithScores(self), returned |-> SortedByScore(SuspiciousRecords(self))]

-----------------------------------------------------------------------------
(* The graph library (networkx), as far as the analyzer uses it. *)

\* G.neighbors(n): a self-loop makes n its own neighbour
Neighbors(g, n) == {m \in g.nodes : {n, m} \in DOMAIN g.edges}

\* G.subgraph(nodes): the induced subgraph
Subgraph(g, nodes) ==
    LET kept == {e \in DOMAIN g.edges : e \subseteq nodes}
    IN  [nodes |-> g.nodes \cap nodes, edges |-> [e \in kept |-> g.edges[e]]]

\* the breadth-first search of nx.connected_components: the nodes reached
\* from `seen`, whose last level is `frontier`
RECURSIVE Reachable(_, _, _)
Reachable(g, seen, frontier) ==
    LET next == UNION {Neighbors(g, n) : n \in frontier} \ seen
    IN  IF next = {} THEN seen ELSE Reachable(g, seen \cup next, next)

\* nx.connected_components(G) over the nodes not yet seen, as a set: the
\* library fixes the order of the list
RECURSIVE ComponentsOf(_, _)
ComponentsOf(g, unseen) ==
    IF unseen = {} THEN {}
    ELSE LET v == CHOOSE n \in unseen : TRUE
             component == Reachable(g, {v}, {v})
         IN  {component} \cup ComponentsOf(g, unseen \ component)

ConnectedComponents(g) == ComponentsOf(g, g.nodes)

\* G.number_of_edges()
NumberOfEdges(g) == Cardinality(DOMAIN g.edges)

\* nx.density(G): 2m / (n (n - 1)), and 0 for no edge or a single node
Density(g) ==
    LET n == Cardinality(g.nodes)
        m == NumberOfEdges(g)
    IN  IF m = 0 \/ n <= 1 THEN RInt(0) ELSE Frac(2 * m, n * (n - 1))

\* G.degree(n): a self-loop counts twice
Degree(g, n) ==
    Cardinality({e \in DOMAIN g.edges : n \in e}) + (IF {n} \in DOMAIN g.edges THEN 1 ELSE 0)

\* nx.degree_centrality(G)[n]
DegreeCentrality(g, n) ==
    IF Cardinality(g.nodes) <= 1 THEN RInt(1)
    ELSE Frac(Degree(g, n), Cardinality(g.nodes) - 1)

\* A value the library computes for node n of the graph and the analyzer only
\* passes on (betweenness, closeness, eigenvector centrality).
Delegated(metric, n) == <<metric, n>>

\* The outcomes of nx.eigenvector_centrality(G, max_iter=1000): it raises on
\* the null graph, and raises when the power iteration has not converged
\* after max_iter rounds, which the graph decides and the model leaves open.
EigenvectorOutcomes(g) ==
    IF g.nodes = {} THEN {"NetworkXPointlessConcept"}
    ELSE {"converged", "PowerIterationFailedConvergence"}

-----------------------------------------------------------------------------
(* The subnetwork extractor and the report. *)

\* one entry of components_analysis (component_id, the index in the library's
\* order, and the delegated avg_clustering and diameter are left out)
ComponentEntry(subgraph, component, suspicious_user_ids) ==
    [total_users |-> Cardinality(component),
     suspicious_users |-> Cardinality(component \cap suspicious_user_ids),
     suspicious_user_ids |-> component \cap suspicious_user_ids,
     density |-> Density(Subgraph(subgraph, component))]

\* Itemized from one flagged user on
MutItemizedSingle(component, suspicious_user_ids) ==
    Cardinality(component \cap suspicious_user_ids) > 0

\* the test that itemizes a component
Itemized(component, suspicious_user_ids) ==
    Cardinality(component \cap suspicious_user_ids) > 1

\* max(len(comp) for comp in components) if components else 0
LargestSize(components) ==
    IF components = {} THEN 0
    ELSE CHOOSE k \in {Cardinality(c) : c \in components} :
            \A c \in components : Cardinality(c) <= k

\* ExtendedSuspicious holding the neighbours only
MutExtendedNeighboursOnly(g, suspicious_user_ids) ==
    UNION {Neighbors(g, n) : n \in suspicious_user_ids}

\* the node set of the subgraph: the flagged users and their neighbours
ExtendedSuspicious(g, suspicious_user_ids) ==
    suspicious_user_ids \cup UNION {Neighbors(g, n) : n \in suspicious_user_ids}

\* SocialNetworkAnalyzer.analyze_suspicious_networks
analyze_suspicious_networks(self, suspicious) ==
    LET suspicious_user_ids == {suspicious[i].user_id : i \in 1..Len(suspicious)}
        subgraph == Subgraph(self.graph,
                             ExtendedSuspicious(self.graph, suspicious_user_ids))
        connected_components == ConnectedComponents(subgraph)
    IN  [total_suspicious_users |-> Cardinality(suspicious_user_ids),
         connected_components |-> Cardinality(connected_components),
         largest_component_size |-> LargestSize(connected_components),
         components_analysis |->
            {ComponentEntry(subgraph, c, suspicious_user_ids) :
                c \in {x \in connected_components : Itemized(x, suspicious_user_ids)}}]

\* SocialNetworkAnalyzer.calculate_user_centrality_metrics, when no call raises
calculate_user_centrality_metrics(self) ==
    [user_id \in self.graph.nodes |->
        [degree |-> DegreeCentrality(self.graph, user_id),
         betweenness |-> Delegated("betweenness_centrality", user_id),
         closeness |-> Delegated("closeness_centrality", user_id),
         eigenvector |-> Delegated("eigenvector_centrality", user_id)]]

\* a recommendation: the f-string's tag and the number formatted into it
Recommendation(tag, n) == <<tag, n>>

\* HighRisk with >= for the score test
MutHighRiskNonStrict(suspicious) ==
    SelectSeq(suspicious, LAMBDA u : RLe(Frac(7, 10), u.suspicion_score))

\* [u for u in suspicious_users if u['suspicion_score'] > 0.7]
HighRisk(suspicious) ==
    SelectSeq(suspicious, LAMBDA u : RLt(Frac(7, 10), u.suspicion_score))

\* _generate_recommendations with large components from 2 flagged users on
MutRecommendationsLargeFromTwo(suspicious, network_analysis) ==
    LET high_risk_count == Len(HighRisk(suspicious))
        large_components == {c \in network_analysis.components_analysis :
                                c.suspicious_users >= 2}
    IN  (IF Len(suspicious) > 10
         THEN <<Recommendation("ALERTA", Len(suspicious))>> ELSE <<>>)
        \o (IF high_risk_count > 0
            THEN <<Recommendation("PRIORIDADE ALTA", high_risk_count)>> ELSE <<>>)
        \o (IF network_analysis.connected_components > 0
            THEN <<Recommendation("REDES IDENTIFICADAS",
                                  network_analysis.connected_components)>> ELSE <<>>)
        \o (IF large_components # {}
            THEN <<Recommendation("REDES COMPLEXAS", Cardinality(large_components))>>
            ELSE <<>>)

\* SocialNetworkAnalyzer._generate_recommendations
_generate_recommendations(suspicious, network_analysis) ==
    LET high_risk_count == Len(HighRisk(suspicious))
        large_components == {c \in network_analysis.components_analysis :
                                c.suspicious_users >= 3}
    IN  (IF Len(suspicious) > 10
         THEN <<Recommendation("ALERTA", Len(suspicious))>> ELSE <<>>)
        \o (IF high_risk_count > 0
            THEN <<Recommendation("PRIORIDADE ALTA", high_risk_count)>> ELSE <<>>)
        \o (IF network_analysis.connected_components > 0
            THEN <<Recommendation("REDES IDENTIFICADAS",
                                  network_analysis.connected_components)>> ELSE <<>>)
        \o (IF large_components # {}
            THEN <<Recommendation("REDES COMPLEXAS", Cardinality(large_components))>>
            ELSE <<>>)

\* Prefix one entry longer
MutPrefixOffByOne(list, n) == SubSeq(list, 1, IF Len(list) < n + 1 THEN Len(list) ELSE n + 1)

\* list[:n]
Prefix(list, n) == SubSeq(list, 1, IF Len(list) < n THEN Len(list) ELSE n)

\* the slice sizes of generate_risk_report
TopInfluential == 10
TopSuspicious == 20

\* the loop that joins the top flagged users with their centrality metrics
RECURSIVE InfluentialSuspicious(_, _, _, _)
InfluentialSuspicious(top, centrality_metrics, i, influential_suspicious) ==
    IF i > Len(top) THEN influential_suspicious
    ELSE InfluentialSuspicious(top, centrality_metrics, i + 1,
            IF top[i].user_id \in DOMAIN centrality_metrics
            THEN Append(influential_suspicious,
                        Update(top[i], centrality_metrics[top[i].user_id]))
            ELSE influential_suspicious)

\* the report dict (the timestamp left out)
BuildReport(self, suspicious, network_analysis, centrality_metrics) ==
    [status |-> "returned",
     summary |-> [total_users |-> Cardinality(DOMAIN self.user_profiles),
                  total_connections |-> NumberOfEdges(self.graph),
                  suspicious_users_count |-> Len(suspicious),
                  high_risk_users |-> Len(HighRisk(suspicious))],
     suspicious_users |-> Prefix(suspicious, TopSuspicious),
     network_analysis |-> network_analysis,
     influential_suspicious |->
        InfluentialSuspicious(Prefix(suspicious, TopInfluential),
                              centrality_metrics, 1, <<>>),
     recommendations |-> _generate_recommendations(suspicious, network_analysis)]

\* SocialNetworkAnalyzer.generate_risk_report with the eigenvector computation
\* ending in `outcome`: [self, suspicious_users, returned].  The scorer has
\* written its scores back before the centrality computation can raise.
generate_risk_report(self, outcome) ==
    LET detected == detect_suspicious_content_patterns(self)
        network_analysis == analyze_suspicious_networks(detected.self, detected.returned)
    IN  [self |-> detected.self,
         suspicious_users |-> detected.returned,
         returned |->
            IF outcome = "converged"
            THEN BuildReport(detected.self, detected.returned, network_analysis,
                             calculate_user_centrality_metrics(detected.self))
            ELSE [status |-> "raised", error |-> outcome]]

-----------------------------------------------------------------------------
(* The behaviour analyzer: ContentAnalyzer.analyze_user_content_patterns    *)
(* (content_analyzer.py), called with a dict of user profiles and a dict of *)
(* content items.  A timestamp is a record [hour, weekday]; a histogram     *)
(* (defaultdict(int)) is a function from the keys seen to their counts.     *)

\* a defaultdict(int) after `d[x[field]] += 1` for each x of the list
Tally(list, field) ==
    [k \in {list[i][field] : i \in 1..Len(list)} |->
        Cardinality({i \in 1..Len(list) : list[i][field] = k})]

\* ContentAnalyzer._analyze_temporal_patterns (the hour and weekday
\* distributions and the peak hours are left out); the timestamps are those
\* of the interactions that have one, school time is 8 <= hour <= 17 on a
\* weekday below 5
_analyze_temporal_patterns(interactions) ==
    LET stamped == SelectSeq(interactions, LAMBDA x : "timestamp" \in DOMAIN x)
        timestamps == [i \in 1..Len(stamped) |-> stamped[i].timestamp]
        school_time == SelectSeq(timestamps,
                           LAMBDA ts : 8 <= ts.hour /\ ts.hour <= 17 /\ ts.weekday < 5)
    IN  IF timestamps = <<>> THEN [error |-> "Sem dados temporais"]
        ELSE [school_time_ratio |-> Frac(Len(school_time), Len(timestamps)),
              total_interactions |-> Len(timestamps)]

\* An entry of suspicious_indicators is <<tag, values>>: the f-string's tag
\* and the values formatted into it.

\* _detect_suspicious_patterns as an if/elif chain: one indicator at most
MutDetectFirstOnly(pattern_analysis, profile) ==
    LET age == profile.age
        high_risk_ratio == pattern_analysis.high_risk_ratio
        temporal == pattern_analysis.temporal_patterns
        total_actions == Get(pattern_analysis.interaction_types, "download", 0)
                         + Get(pattern_analysis.interaction_types, "share", 0)
        content_types == pattern_analysis.content_types
    IN  [pattern_analysis EXCEPT !.suspicious_indicators =
            pattern_analysis.suspicious_indicators
            \o (IF age >= 18 /\ RLt(Frac(3, 10), high_risk_ratio)
                THEN << <<"Adulto", <<age, high_risk_ratio>> >> >>
                ELSE IF /\ "school_time_ratio" \in DOMAIN temporal
                        /\ RLt(Frac(6, 10), temporal.school_time_ratio)
                THEN << <<"Alto consumo em horário escolar", <<>>>> >>
                ELSE IF total_actions > 5 /\ RLt(Frac(2, 10), high_risk_ratio)
                THEN << <<"ações de download/compartilhamento", <<total_actions>>>> >>
                ELSE IF /\ Cardinality(DOMAIN content_types) <= 2
                        /\ pattern_analysis.total_interactions > 10
                        /\ DOMAIN content_types \cap ChildContentTypes # {}
                THEN << <<"Consumo muito focado", <<DOMAIN content_types>>>> >>
                ELSE <<>>)]

\* ContentAnalyzer._detect_suspicious_patterns: the pattern_analysis with the
\* indicators appended
_detect_suspicious_patterns(pattern_analysis, profile) ==
    LET age == profile.age
        high_risk_ratio == pattern_analysis.high_risk_ratio
        temporal == pattern_analysis.temporal_patterns
        total_actions == Get(pattern_analysis.interaction_types, "download", 0)
                         + Get(pattern_analysis.interaction_types, "share", 0)
        content_types == pattern_analysis.content_types
    IN  [pattern_analysis EXCEPT !.suspicious_indicators =
            pattern_analysis.suspicious_indicators
            \o (IF age >= 18 /\ RLt(Frac(3, 10), high_risk_ratio)
                THEN << <<"Adulto", <<age, high_risk_ratio>> >> >> ELSE <<>>)
            \o (IF /\ "school_time_ratio" \in DOMAIN temporal
                   /\ RLt(Frac(6, 10), temporal.school_time_ratio)
                THEN << <<"Alto consumo em horário escolar", <<>>>> >> ELSE <<>>)
            \o (IF total_actions > 5 /\ RLt(Frac(2, 10), high_risk_ratio)
                THEN << <<"ações de download/compartilhamento", <<total_actions>>>> >>
                ELSE <<>>)
            \o (IF /\ Cardinality(DOMAIN content_types) <= 2
                   /\ pattern_analysis.total_interactions > 10
                   /\ DOMAIN content_types \cap ChildContentTypes # {}
                THEN << <<"Consumo muito focado", <<DOMAIN content_types>>>> >>
                ELSE <<>>)]

\* ClassifiedMetadata taking the metadata the interaction itself carries
MutClassifiedOwnMetadata(interaction, contents) == interaction.metadata

\* `content_data[content_id]['metadata']`: the metadata the loop classifies
ClassifiedMetadata(interaction, contents) == contents[interaction.content_id].metadata

\* total_risk_score after the first n classified interactions
RECURSIVE TotalRiskScore(_, _)
TotalRiskScore(risks, n) ==
    IF n = 0 THEN RInt(0)
    ELSE RAdd(TotalRiskScore(risks, n - 1), risks[n].risk_score)

\* the body of the loop over the users: the pattern_analysis of one user
\* (`contents` is the parameter content_data, `profiles` the parameter
\* user_profiles); the interactions classified are those whose content_id
\* is in content_data
PatternAnalysis(user_id, profile, contents) ==
    LET content_consumed == profile.content_consumed
        resolvable == SelectSeq(content_consumed,
                                LAMBDA x : x.content_id \in DOMAIN contents)
        risks == [i \in 1..Len(resolvable) |->
                    LET content_risk == classify_content_risk(
                            ClassifiedMetadata(resolvable[i], contents))
                    IN  [interaction_type |-> resolvable[i].interaction_type,
                         risk_level |-> content_risk.risk_level,
                         risk_score |-> content_risk.risk_score]]
        high_risk == SelectSeq(risks, LAMBDA r : r.risk_level \in {"ALTO", "MÉDIO"})
        actions == SelectSeq(high_risk,
                       LAMBDA r : r.interaction_type \in {"download", "save", "share"})
    IN  _detect_suspicious_patterns(
            [user_id |-> user_id,
             age |-> profile.age,
             total_interactions |-> Len(content_consumed),
             content_types |-> Tally(content_consumed, "content_type"),
             risk_distribution |-> Tally(risks, "risk_level"),
             temporal_patterns |-> _analyze_temporal_patterns(content_consumed),
             interaction_types |-> Tally(content_consumed, "interaction_type"),
             suspicious_indicators |->
                [i \in 1..Len(actions) |->
                    <<"em conteúdo de risco", <<actions[i].interaction_type, actions[i].risk_level>> >>],
             avg_risk_score |-> RMul(TotalRiskScore(risks, Len(risks)),
                                     Frac(1, Len(content_consumed))),
             high_risk_ratio |-> Frac(Len(high_risk), Len(content_consumed))],
            profile)

\* ContentAnalyzer.analyze_user_content_patterns
analyze_user_content_patterns(profiles, contents) ==
    [user_id \in {u \in DOMAIN profiles :
                     Len(profiles[u].content_consumed) # 0} |->
        PatternAnalysis(user_id, profiles[user_id], contents)]

-----------------------------------------------------------------------------
(* The consumption-cluster detector of SuspiciousPatternDetector            *)
(* (graph_utils.py), called with the analyzer's user_profiles and           *)
(* content_data: the dicts themselves, not copies.                          *)

\* the test of the inner loop, on the content item of the interaction
IsChildItem(content_info) ==
    \/ content_info.content_type \in ChildContentTypes
    \/ Get(Get(content_info, "metadata", EmptyDict), "target_age_max", 100) < 13

\* the interactions of a profile that the inner loop counts
CountedInteractions(self, profile) ==
    SelectSeq(profile.content_consumed,
              LAMBDA interaction :
                  /\ interaction.content_id \in DOMAIN self.content_data
                  /\ IsChildItem(self.content_data[interaction.content_id]))

\* the users the outer loop does not skip, in the dict's order
AdultUsers(self) ==
    SelectSeq(self.profile_order, LAMBDA user_id : self.user_profiles[user_id].age >= 18)

\* the appends of the first n users to content_consumers, in the order made
RECURSIVE Appended(_, _, _)
Appended(self, users, n) ==
    IF n = 0 THEN <<>>
    ELSE LET profile == self.user_profiles[users[n]]
             counted == CountedInteractions(self, profile)
         IN  Appended(self, users, n - 1)
             \o [i \in 1..Len(counted) |->
                    [content_id |-> counted[i].content_id,
                     consumer |-> [user_id |-> users[n],
                                   age |-> profile.age,
                                   interaction_type |-> counted[i].interaction_type]]]

\* the keys of content_consumers in insertion order, from the first n appends
RECURSIVE KeysInOrder(_, _)
KeysInOrder(appended, n) ==
    IF n = 0 THEN <<>>
    ELSE LET keys == KeysInOrder(appended, n - 1)
         IN  IF \E i \in 1..Len(keys) : keys[i] = appended[n].content_id THEN keys
             ELSE Append(keys, appended[n].content_id)

\* the sum of the ages of a list of consumers
RECURSIVE SumOfAges(_, _)
SumOfAges(consumers, n) ==
    IF n = 0 THEN 0 ELSE SumOfAges(consumers, n - 1) + consumers[n].age

\* `if len(adult_consumers) >= 2`
ClusterFound(adult_consumers) == Len(adult_consumers) >= 2

\* the record appended for a content item and its consumers
Cluster(content_id, consumers) ==
    LET adult_consumers == SelectSeq(consumers, LAMBDA c : c.age >= 18)
    IN  [content_id |-> content_id,
         adult_consumer_count |-> Len(adult_consumers),
         consumers |-> adult_consumers,
         avg_consumer_age |-> Frac(SumOfAges(adult_consumers, Len(adult_consumers)),
                                   Len(adult_consumers)),
         risk_score |-> RMin(RInt(1), Frac(Len(adult_consumers), 10))]

\* sorted(list, key=risk_score, reverse=True), a stable sort: the first n
\* entries sorted
RECURSIVE SortedByRisk(_, _)
SortedByRisk(list, n) ==
    IF n = 0 THEN <<>>
    ELSE LET sorted == SortedByRisk(list, n - 1)
             ahead == SelectSeq(sorted, LAMBDA x : ~RLt(x.risk_score, list[n].risk_score))
         IN  ahead \o <<list[n]>> \o SubSeq(sorted, Len(ahead) + 1, Len(sorted))

\* `if child_content_count >= 3: profile['child_content_count'] = ...`: the
\* profile is the analyzer's own dict, so the key is written to the store
WithChildCounts(self) ==
    LET counted(profile) == Len(CountedInteractions(self, profile))
        noted(profile) ==
            IF profile.age >= 18 /\ counted(profile) >= 3
            THEN Put(profile, "child_content_count", counted(profile))
            ELSE profile
    IN  [self EXCEPT !.user_profiles =
            [user_id \in DOMAIN self.user_profiles |-> noted(self.user_profiles[user_id])]]

\* SuspiciousPatternDetector.detect_content_consumption_clusters(
\* analyzer.user_profiles, analyzer.content_data): [self, returned]
detect_content_consumption_clusters(self) ==
    LET users == AdultUsers(self)
        appended == Appended(self, users, Len(users))
        keys == KeysInOrder(appended, Len(appended))
        consumers(content_id) ==
            LET of == SelectSeq(appended, LAMBDA a : a.content_id = content_id)
            IN  [i \in 1..Len(of) |-> of[i].consumer]
        found == SelectSeq(keys, LAMBDA content_id : ClusterFound(consumers(content_id)))
        suspicious_clusters == [i \in 1..Len(found) |-> Cluster(found[i], consumers(found[i]))]
    IN  [self |-> WithChildCounts(self),
         returned |-> SortedByRisk(suspicious_clusters, Len(suspicious_clusters))]

-----------------------------------------------------------------------------
(* The analyzer object of the state, and the calls as actions. *)

Self ==
    [graph |-> graph, user_profiles |-> user_profiles,
     profile_order |-> profile_order, content_data |-> content_data]

\* the state holds the analyzer object s
Holds(s) ==
    /\ graph = s.graph
    /\ user_profiles = s.user_profiles
    /\ profile_order = s.profile_order
    /\ content_data = s.content_data

\* the call leaves the analyzer object s
Leaves(s) ==
    /\ graph' = s.graph
    /\ user_profiles' = s.user_profiles
    /\ profile_order' = s.profile_order
    /\ content_data' = s.content_data

\* a call and its arguments
Call(name, args) == [call |-> name, args |-> args]

NoReport == [status |-> "none"]
NoRisk == [risk_score |-> RInt(0), risk_level |-> "none", risk_factors |-> <<>>]

\* nothing has been called yet on the analyzer object s
\* at most so many runs of the scorer overlap
MaxRuns == 2

Runs == 1..MaxRuns

Fresh(s) ==
    /\ Holds(s)
    /\ op = Call("__init__", <<>>)
    /\ before = s
    /\ ok = TRUE
    /\ suspicious_users = <<>>
    /\ report = NoReport
    /\ risk = NoRisk
    /\ calls = 0
    /\ clusters = <<>>
    /\ runs = [r \in Runs |-> NewRun]
    /\ user_patterns = EmptyDict

\* classify_content_risk(content_metadata)
ClassifyContentRisk ==
    /\ risk' = classify_content_risk(content_metadata)
    /\ op' = Call("classify_content_risk", <<>>)
    /\ UNCHANGED <<graph, user_profiles, profile_order, content_data, before, ok,
                   suspicious_users, report, content_metadata, calls, clusters, runs, user_patterns>>

\* add_content_interaction(user_id, content_id, content_type, interaction_type,
\* content_metadata), the arguments drawn from `inputs`, at most `budget`
\* ingestion calls in all
AddContentInteraction(inputs, budget) ==
    /\ calls < budget
    /\ \E i \in inputs :
          LET done == add_content_interaction(Self, i.user_id, i.content_id,
                          i.content_type, i.interaction_type, i.metadata)
          IN  /\ Leaves(done.self)
              /\ ok' = done.returned
              /\ op' = Call("add_content_interaction",
                            <<i.user_id, i.content_id, i.content_type,
                              i.interaction_type, i.metadata>>)
    /\ before' = Self
    /\ calls' = calls + 1
    /\ UNCHANGED <<suspicious_users, report, content_metadata, risk, clusters, runs, user_patterns>>

\* detect_suspicious_content_patterns()
DetectSuspiciousContentPatterns ==
    LET done == detect_suspicious_content_patterns(Self)
    IN  /\ Leaves(done.self)
        /\ suspicious_users' = done.returned
        /\ op' = Call("detect_suspicious_content_patterns", <<>>)
        /\ before' = Self
        /\ UNCHANGED <<ok, report, content_metadata, risk, calls, clusters, runs, user_patterns>>

\* a run of detect_suspicious_content_patterns() makes its next iteration
LoopIteration ==
    \E r \in Runs :
        /\ ~runs[r].returned
        /\ runs[r].position < Len(profile_order)
        /\ LET done == Iteration(Self, runs[r])
               inside == \E q \in Runs \ {r} :
                            runs[q].position > 0 /\ ~runs[q].returned
           IN  /\ Leaves(done.self)
               /\ runs' = [runs EXCEPT ![r] =
                              [done.run EXCEPT !.overlapped = runs[r].overlapped \/ inside]]
        /\ UNCHANGED <<op, before, ok, suspicious_users, report, content_metadata,
                       risk, calls, clusters, user_patterns>>

\* a run of detect_suspicious_content_patterns() has left its loop: it sorts
\* its list and returns
ReturnSorted ==
    \E r \in Runs :
        /\ ~runs[r].returned
        /\ runs[r].position = Len(profile_order)
        /\ runs' = [runs EXCEPT ![r] =
                       [runs[r] EXCEPT !.returned = TRUE,
                                       !.result = SortedByScore(runs[r].suspicious_users)]]
        /\ UNCHANGED <<graph, user_profiles, profile_order, content_data, op, before,
                       ok, suspicious_users, report, content_metadata, risk, calls,
                       clusters, user_patterns>>

\* a dict without some of its keys
Without(d, keys) == [k \in DOMAIN d \ keys |-> d[k]]

\* ContentAnalyzer().analyze_user_content_patterns(analyzer.user_profiles,
\* content_data): content_data is the analyzer's dict, or a dict that lacks
\* the items of one of `catalogs`
AnalyzeUserContentPatterns(catalogs) ==
    \E missing \in catalogs :
        /\ user_patterns' = analyze_user_content_patterns(
                                user_profiles, Without(content_data, missing))
        /\ op' = Call("analyze_user_content_patterns", <<missing>>)
        /\ before' = Self
        /\ UNCHANGED <<graph, user_profiles, profile_order, content_data, ok,
                       suspicious_users, report, content_metadata, risk, calls,
                       clusters, runs>>

\* SuspiciousPatternDetector().detect_content_consumption_clusters(
\* analyzer.user_profiles, analyzer.content_data)
DetectContentConsumptionClusters ==
    LET done == detect_content_consumption_clusters(Self)
    IN  /\ Leaves(done.self)
        /\ clusters' = done.returned
        /\ op' = Call("detect_content_consumption_clusters", <<>>)
        /\ before' = Self
        /\ UNCHANGED <<ok, suspicious_users, report, content_metadata, risk, calls, runs, user_patterns>>

\* add_user(user_id, age, profile_data), the arguments drawn from `inputs`
AddUser(inputs, budget) ==
    /\ calls < budget
    /\ \E i \in inputs :
          /\ Leaves(add_user(Self, i.user_id, i.age, i.profile_data))
          /\ op' = Call("add_user", <<i.user_id, i.age, i.profile_data>>)
    /\ before' = Self
    /\ calls' = calls + 1
    /\ UNCHANGED <<ok, suspicious_users, report, content_metadata, risk, clusters, runs, user_patterns>>

\* add_connection(user1, user2, connection_type, weight), the arguments drawn
\* from `inputs`
AddConnection(inputs, budget) ==
    /\ calls < budget
    /\ \E i \in inputs :
          /\ Leaves(add_connection(Self, i.user1, i.user2, i.connection_type, i.weight))
          /\ op' = Call("add_connection",
                        <<i.user1, i.user2, i.connection_type, i.weight>>)
    /\ before' = Self
    /\ calls' = calls + 1
    /\ UNCHANGED <<ok, suspicious_users, report, content_metadata, risk, clusters, runs, user_patterns>>

\* generate_risk_report(); suspicious_users is what its scorer run returned
GenerateRiskReport ==
    \E outcome \in EigenvectorOutcomes(graph) :
        LET done == generate_risk_report(Self, outcome)
        IN  /\ Leaves(done.self)
            /\ report' = done.returned
            /\ suspicious_users' = done.suspicious_users
            /\ op' = Call("generate_risk_report", <<>>)
            /\ before' = Self
            /\ UNCHANGED <<ok, content_metadata, risk, calls, clusters, runs, user_patterns>>

-----------------------------------------------------------------------------
(* The classifier on bounded metadata. *)

\* the most words a title holds
MaxTitleWords == 2

Word_bebe == <<"b","e","b","ê">>
Word_Kids == <<"K","i","d","s">>
Word_aprende == <<"a","p","r","e","n","d","e">>
Word_PreSchool == <<"P","r","e","S","c","h","o","o","l">>

TitleWords == {Word_bebe, Word_Kids, Word_aprende, Word_PreSchool}

\* the texts of n words, joined by spaces
RECURSIVE Texts(_)
Texts(n) ==
    IF n = 0 THEN {<<>>}
    ELSE IF n = 1 THEN TitleWords
    ELSE {t \o <<" ">> \o w : t \in Texts(n - 1), w \in TitleWords}

Titles == UNION {Texts(n) : n \in 0..MaxTitleWords}

Descriptions ==
    { <<"k","i","d","s">>,
      <<"E","S","C","O","L","A"," ","i","n","f","a","n","t","i","l">> }

Categories ==
    { <<"k","i","d","s">>, <<"F","a","m","i","l","y">>, <<"g","a","m","e","s">>,
      <<"e","d","u","c","a","t","i","o","n">> }

TargetAges == {5, 8, 9, 12, 13, 16, 17}
Durations == {0, 30, 59, 60}

\* a field that may be missing: <<>> (missing) or <<value>>
Optional(values) == {<<>>} \cup {<<v>> : v \in values}

\* the dict holding the fields that are present
Metadata(title, description, target_age_max, category, duration_seconds) ==
    LET present == (IF title # <<>> THEN {"title"} ELSE {})
                   \cup (IF description # <<>> THEN {"description"} ELSE {})
                   \cup (IF target_age_max # <<>> THEN {"target_age_max"} ELSE {})
                   \cup (IF category # <<>> THEN {"category"} ELSE {})
                   \cup (IF duration_seconds # <<>> THEN {"duration_seconds"} ELSE {})
    IN  [k \in present |->
            CASE k = "title" -> title[1]
              [] k = "description" -> description[1]
              [] k = "target_age_max" -> target_age_max[1]
              [] k = "category" -> category[1]
              [] k = "duration_seconds" -> duration_seconds[1]]

MetadataInputs ==
    {Metadata(t, d, a, c, s) :
        t \in Optional(Titles), d \in Optional(Descriptions),
        a \in Optional(TargetAges), c \in Optional(Categories),
        s \in Optional(Durations)}

InitClassify ==
    /\ Fresh(NewAnalyzer)
    /\ content_metadata \in MetadataInputs

NextClassify == ClassifyContentRisk

SpecClassify == InitClassify /\ [][NextClassify]_vars

-----------------------------------------------------------------------------
(* The scorer on bounded stores.  A store is loaded by the ingestion calls  *)
(* themselves (as example_use.py loads its simulated data), then receives   *)
(* a bounded number of further calls, with scorer runs in between.          *)

\* the arguments of an add_content_interaction call
Interaction(user_id, content_id, content_type, interaction_type, metadata) ==
    [user_id |-> user_id, content_id |-> content_id, content_type |-> content_type,
     interaction_type |-> interaction_type, metadata |-> metadata]

\* a child-directed video by its type; one by its metadata only; a news item;
\* a video for teenagers (target_age_max 13 is not below 13)
KidsVideo(u) == Interaction(u, "c_kids", "kids_video", "view", EmptyDict)
ToddlerClip(u) == Interaction(u, "c_toddler", "video", "view", [target_age_max |-> 6])
NewsItem(u) == Interaction(u, "c_news", "news", "view", EmptyDict)
TeenVideo(u) == Interaction(u, "c_teen", "video", "share", [target_age_max |-> 13])

\* k times the same add_content_interaction call (a loader stops at a call
\* that fails)
RECURSIVE Interact(_, _, _)
Interact(self, i, k) ==
    IF k = 0 THEN self
    ELSE LET done == add_content_interaction(self, i.user_id, i.content_id,
                         i.content_type, i.interaction_type, i.metadata)
         IN  IF done.returned THEN Interact(done.self, i, k - 1) ELSE done.self

\* the bounds of the loaded logs and of the calls that follow
MaxChild == 7
MaxOther == 6
MaxScorerCalls == 1

ScorerAges == {17, 18, 25, 30, 45, 55}
ChildCounts == {0} \cup (4..MaxChild)

\* user 1 of the given age with c child interactions then o others; with
\* `second`, user 2, aged 45, with 6 of 14 interactions child content
ScorerStore(age, child, c, o, second) ==
    LET one == Interact(Interact(add_user(NewAnalyzer, 1, age, EmptyDict), child, c),
                        NewsItem(1), o)
    IN  IF second
        THEN Interact(Interact(add_user(one, 2, 45, EmptyDict), KidsVideo(2), 6),
                      NewsItem(2), 8)
        ELSE one

\* the end-to-end store: U1 aged 45 with 10 interactions, 8 of them on content
\* for ages up to 6; U2 aged 16 with child content only; U3 aged 30 with 1
\* child interaction of 10
EndToEndStore ==
    LET u1 == Interact(Interact(add_user(NewAnalyzer, 1, 45, EmptyDict),
                                ToddlerClip(1), 8), NewsItem(1), 2)
        u2 == Interact(add_user(u1, 2, 16, EmptyDict), KidsVideo(2), 6)
    IN  Interact(Interact(add_user(u2, 3, 30, EmptyDict), KidsVideo(3), 1),
                 NewsItem(3), 9)

ScorerStores ==
    {ScorerStore(age, child, c, o, second) :
        age \in ScorerAges, child \in {KidsVideo(1), ToddlerClip(1)},
        c \in ChildCounts, o \in 0..MaxOther, second \in BOOLEAN}
    \cup {EndToEndStore}

ScorerInputs == {ToddlerClip(1), TeenVideo(1), NewsItem(2), KidsVideo(2)}

InitScorer ==
    /\ \E s \in ScorerStores : Fresh(s)
    /\ content_metadata = EmptyDict

NextScorer ==
    \/ AddContentInteraction(ScorerInputs, MaxScorerCalls)
    \/ DetectSuspiciousContentPatterns

SpecScorer == InitScorer /\ [][NextScorer]_vars

-----------------------------------------------------------------------------
(* The report on bounded stores: up to MaxReportUsers users registered in   *)
(* the order 1, 2, ..., their logs and connections loaded by the ingestion  *)
(* calls, then a bounded number of further calls and report runs.           *)

MaxReportUsers == 21
MaxReportCalls == 1

\* the arguments of an add_connection call; the weight in tenths
Connection(user1, user2, connection_type, weight) ==
    [user1 |-> user1, user2 |-> user2, connection_type |-> connection_type,
     weight |-> weight]

\* The kinds of users of a loaded store:
\*   "high"  aged 25, 6 child interactions of 6     (score 1.0)
\*   "edge"  aged 45, 7 child interactions of 20    (score 0.7, not above 0.7)
\*   "minor" aged 16, 6 child interactions of 6     (never scored)
LoadUser(self, user_id, kind) ==
    IF kind = "high"
    THEN Interact(add_user(self, user_id, 25, EmptyDict), KidsVideo(user_id), 6)
    ELSE IF kind = "edge"
    THEN Interact(Interact(add_user(self, user_id, 45, EmptyDict),
                           KidsVideo(user_id), 7), NewsItem(user_id), 13)
    ELSE Interact(add_user(self, user_id, 16, EmptyDict), KidsVideo(user_id), 6)

\* the kind of user i under each population pattern
KindOf(pattern, i) ==
    IF pattern = "all high" THEN "high"
    ELSE IF pattern = "minors" THEN "minor"
    ELSE IF pattern = "edge first" THEN (IF i = 1 THEN "edge" ELSE "high")
    ELSE (IF i % 3 = 0 THEN "minor" ELSE IF i = 1 THEN "edge" ELSE "high")

Patterns == {"all high", "edge first", "mixed"}

\* users 1..n registered and loaded, in this order (a user is loaded once)
RECURSIVE LoadUsers(_, _)
LoadUsers(pattern, n) ==
    IF n = 0 THEN NewAnalyzer
    ELSE LET loaded == LoadUsers(pattern, n - 1)
         IN  IF n \in DOMAIN loaded.user_profiles THEN loaded
             ELSE LoadUser(loaded, n, KindOf(pattern, n))

\* the connections i -- i + step for i = first, first + stride, ... below n
\* (a pair is connected once)
RECURSIVE Connect(_, _, _, _, _)
Connect(self, i, step, stride, n) ==
    IF i + step > n THEN self
    ELSE IF {i, i + step} \in DOMAIN self.graph.edges THEN self
    ELSE Connect(add_connection(self, i, i + step, "friend", 10),
                 i + stride, step, stride, n)

Layouts == {"none", "pairs", "chain"}

\* no connection; 1--2, 3--4, ...; or 1--2--3--...
ReportStore(pattern, n, layout) ==
    IF layout = "pairs" THEN Connect(LoadUsers(pattern, n), 1, 1, 2, n)
    ELSE IF layout = "chain" THEN Connect(LoadUsers(pattern, n), 1, 1, 1, n)
    ELSE LoadUsers(pattern, n)

\* the sizes of the loaded stores: below, between and above the lengths the
\* report cuts its lists to
ReportSizes == (0..4) \cup {TopInfluential + 1, MaxReportUsers}

\* ... and a store of two connected minors, where no one is flagged
ReportStores ==
    {ReportStore(pattern, n, layout) :
        pattern \in Patterns, n \in ReportSizes, layout \in Layouts}
    \cup {ReportStore("minors", 2, "pairs")}

\* a connection between two users, and one of a user with themself
ReportConnections ==
    {Connection(1, 2, "friend", 10), Connection(3, 3, "mutual", 5)}

ReportInteractions == {NewsItem(1)}

InitReport ==
    /\ \E s \in ReportStores : Fresh(s)
    /\ content_metadata = EmptyDict

NextReport ==
    \/ AddConnection(ReportConnections, MaxReportCalls)
    \/ AddContentInteraction(ReportInteractions, MaxReportCalls)
    \/ GenerateRiskReport

SpecReport == InitReport /\ [][NextReport]_vars

-----------------------------------------------------------------------------
(* The store from its construction on: a bounded number of ingestion calls  *)
(* on the empty analyzer, users 1 and 2 registered (and registered again),  *)
(* user 3 never.                                                            *)

MaxStoreCalls == 5

\* the arguments of an add_user call
User(user_id, age, profile_data) ==
    [user_id |-> user_id, age |-> age, profile_data |-> profile_data]

StoreUsers == {User(1, 25, EmptyDict), User(2, 16, [name |-> "Usuario_2"])}

\* between users 1 and 2 (twice, the second with a weight of 1.5), of user 1
\* with themself, and with user 3
StoreConnections ==
    {Connection(1, 2, "friend", 10), Connection(1, 2, "follower", 15),
     Connection(1, 1, "mutual", 5), Connection(1, 3, "friend", 10)}

StoreInteractions == {KidsVideo(1), NewsItem(1), KidsVideo(2), KidsVideo(3)}

InitStore ==
    /\ Fresh(NewAnalyzer)
    /\ content_metadata = EmptyDict

NextStore ==
    \/ AddUser(StoreUsers, MaxStoreCalls)
    \/ AddConnection(StoreConnections, MaxStoreCalls)
    \/ AddContentInteraction(StoreInteractions, MaxStoreCalls)

SpecStore == InitStore /\ [][NextStore]_vars

-----------------------------------------------------------------------------
(* Repeated connections: on a loaded store without connections, a bounded   *)
(* number of add_connection calls, each for the pair of users 1 and 2, and  *)
(* report runs.                                                             *)

MaxPairCalls == 3

PairStores == {ReportStore(pattern, n, "none") : pattern \in Patterns, n \in 2..3}

\* the pair in either order, of different kinds and weights
PairConnections ==
    {Connection(1, 2, "friend", 10), Connection(2, 1, "follower", 5),
     Connection(1, 2, "mutual", 7)}

InitPair ==
    /\ \E s \in PairStores : Fresh(s)
    /\ content_metadata = EmptyDict

NextPair ==
    \/ AddConnection(PairConnections, MaxPairCalls)
    \/ GenerateRiskReport

SpecPair == InitPair /\ [][NextPair]_vars

-----------------------------------------------------------------------------
(* The analyses on a quiesced store: loaded stores of up to MaxAnalysedUsers *)
(* users that receive no ingestion call, and runs of the scorer, the report *)
(* and the cluster detector in any order.                                   *)

MaxAnalysedUsers == 3

AnalysedStores ==
    {ReportStore(pattern, n, layout) :
        pattern \in Patterns, n \in 1..MaxAnalysedUsers, layout \in {"none", "pairs"}}

InitAnalyses ==
    /\ \E s \in AnalysedStores : Fresh(s)
    /\ content_metadata = EmptyDict

NextAnalyses ==
    \/ DetectSuspiciousContentPatterns
    \/ GenerateRiskReport
    \/ DetectContentConsumptionClusters

SpecAnalyses == InitAnalyses /\ [][NextAnalyses]_vars

-----------------------------------------------------------------------------
(* Overlapping runs of the scorer on a loaded store that receives no       *)
(* ingestion: the runs interleave iteration by iteration.                   *)

InitOverlap == \E s \in AnalysedStores : Fresh(s) /\ content_metadata = EmptyDict

NextOverlap ==
    \/ LoopIteration
    \/ ReturnSorted

SpecOverlap == InitOverlap /\ [][NextOverlap]_vars

-----------------------------------------------------------------------------
(* The behaviour analyzer on loaded stores: user 1 with a log of n          *)
(* interactions, the first r of them on risky content, the first d of them  *)
(* downloads and shares, the first s of them made in school time; user 2    *)
(* with an empty log.                                                        *)

MaxLog == 11
MaxRisky == 4

\* the log of a user with the timestamps of its calls: the first s made on
\* a Wednesday morning (school time), the others on a Saturday evening
Stamped(self, user_id, s) ==
    LET content_consumed == self.user_profiles[user_id].content_consumed
    IN  [self EXCEPT !.user_profiles[user_id].content_consumed =
            [i \in 1..Len(content_consumed) |->
                Put(content_consumed[i], "timestamp",
                    IF i <= s THEN [hour |-> 10, weekday |-> 2]
                    ELSE [hour |-> 20, weekday |-> 5])]]

\* the arguments of call i.  The risky items are for children of up to 6
\* (score 0.8, ALTO) and of up to 12 (score 0.6, MÉDIO) in turn; the others
\* are items of no risk, of a child content type ("game") or not ("news"),
\* or three items in turn, one of them for teenagers ("varied").
PatternCall(i, r, d, kinds) ==
    LET interaction_type == IF i > d THEN "view"
                            ELSE IF i % 2 = 1 THEN "download" ELSE "share"
    IN  IF i <= r /\ i % 2 = 1
        THEN Interaction(1, "c_baby", "kids_video", interaction_type,
                         [target_age_max |-> 6])
        ELSE IF i <= r
        THEN Interaction(1, "c_kid", "kids_video", interaction_type,
                         [target_age_max |-> 12])
        ELSE IF kinds = "news" \/ (kinds = "varied" /\ i % 3 = 1)
        THEN Interaction(1, "c_news", "news", interaction_type, EmptyDict)
        ELSE IF kinds = "game"
        THEN Interaction(1, "c_game", "children_game", interaction_type, EmptyDict)
        ELSE IF i % 3 = 0
        THEN Interaction(1, "c_teen", "video", interaction_type, [target_age_max |-> 16])
        ELSE Interaction(1, "c_sport", "sport", interaction_type, EmptyDict)

\* the first n calls made
RECURSIVE LoadLog(_, _, _, _, _)
LoadLog(self, n, r, d, kinds) ==
    IF n = 0 THEN self
    ELSE Interact(LoadLog(self, n - 1, r, d, kinds), PatternCall(n, r, d, kinds), 1)

InitPatterns ==
    /\ \E age \in {16, 30}, n \in {5, MaxLog}, r \in 0..MaxRisky, d \in {0, 5, 6},
          s \in {0, 3, 7}, kinds \in {"news", "game", "varied"} :
          Fresh(Stamped(LoadLog(add_user(add_user(NewAnalyzer, 1, age, EmptyDict),
                                         2, 40, EmptyDict),
                                n, r, d, kinds), 1, s))
    /\ content_metadata = EmptyDict

\* the content_data argument is the analyzer's dict, or lacks the news item,
\* or lacks the risky items
NextPatterns == AnalyzeUserContentPatterns({{}, {"c_news"}, {"c_baby", "c_kid"}})

SpecPatterns == InitPatterns /\ [][NextPatterns]_vars

-----------------------------------------------------------------------------
(* One content item seen under two descriptions: user 1, aged 30, with a    *)
(* first interaction on c_clip under one type and metadata and up to        *)
(* MaxRepeat further ones under the other; then a bounded number of         *)
(* further calls, and runs of the scorer and of the behaviour analyzer.     *)

MaxRepeat == 6
MaxCatalogCalls == 1

\* c_clip as a plain video, and as a video for children of up to 6
CatalogInputs ==
    {Interaction(1, "c_clip", "video", "view", EmptyDict),
     Interaction(1, "c_clip", "kids_video", "view", [target_age_max |-> 6])}

InitCatalog ==
    /\ \E first \in CatalogInputs, k \in 0..MaxRepeat :
          Fresh(Interact(Interact(add_user(NewAnalyzer, 1, 30, EmptyDict), first, 1),
                         CHOOSE other \in CatalogInputs : other # first, k))
    /\ content_metadata = EmptyDict

NextCatalog ==
    \/ AddContentInteraction(CatalogInputs, MaxCatalogCalls)
    \/ DetectSuspiciousContentPatterns
    \/ AnalyzeUserContentPatterns({{}})

SpecCatalog == InitCatalog /\ [][NextCatalog]_vars

-----------------------------------------------------------------------------
(* A loaded store that grows: a bounded number of ingestion calls of all    *)
(* three kinds (user 1 registered again, user 30 new, user 31 never         *)
(* registered) and report runs.                                             *)

MaxGrowCalls == 2

InitGrow ==
    /\ \E s \in AnalysedStores \cup {ReportStore("all high", TopInfluential + 1, "pairs")} :
          Fresh(s)
    /\ content_metadata = EmptyDict

NextGrow ==
    \/ AddUser({User(1, 25, EmptyDict), User(30, 40, EmptyDict)}, MaxGrowCalls)
    \/ AddConnection({Connection(1, 2, "friend", 10), Connection(1, 31, "friend", 10),
                      Connection(30, 1, "follower", 5)}, MaxGrowCalls)
    \/ AddContentInteraction({KidsVideo(30), NewsItem(31)}, MaxGrowCalls)
    \/ GenerateRiskReport

SpecGrow == InitGrow /\ [][NextGrow]_vars

-----------------------------------------------------------------------------
(* Properties of the classifier (SpecClassify). *)

Classified == op.call = "classify_content_risk"

\* score >= k/10 and score = k/10, for a rational score
AtLeastTenths(score, k) == 10 * score[1] >= k * score[2]
IsTenths(score, k) == 10 * score[1] = k * score[2]

(* C5: for every metadata, risk_score lies in [0,1] and risk_level is fixed  *)
(* by that score: ALTO iff score >= 0.7, MÉDIO iff 0.4 <= score < 0.7,       *)
(* BAIXO iff 0.2 <= score < 0.4, MÍNIMO iff score < 0.2.                     *)
C5_LevelFromCappedScore ==
    Classified =>
        /\ AtLeastTenths(risk.risk_score, 0)
        /\ ~AtLeastTenths(risk.risk_score, 11) /\ risk.risk_score[1] <= risk.risk_score[2]
        /\ risk.risk_level \in {"ALTO", "MÉDIO", "BAIXO", "MÍNIMO"}
        /\ (risk.risk_level = "ALTO") <=> AtLeastTenths(risk.risk_score, 7)
        /\ (risk.risk_level = "MÉDIO") <=>
              (AtLeastTenths(risk.risk_score, 4) /\ ~AtLeastTenths(risk.risk_score, 7))
        /\ (risk.risk_level = "BAIXO") <=>
              (AtLeastTenths(risk.risk_score, 2) /\ ~AtLeastTenths(risk.risk_score, 4))
        /\ (risk.risk_level = "MÍNIMO") <=> ~AtLeastTenths(risk.risk_score, 2)

\* a score exactly on the boundary 0.7 (0.6 for the age, 0.1 for the duration)
C5_Witness ==
    /\ Classified
    /\ IsTenths(risk.risk_score, 7)
    /\ risk.risk_level = "ALTO"
    /\ Len(risk.risk_factors) = 2

\* the keyword occurs in the text, letter case aside
OccursIn(text, keyword) ==
    \E i \in 1..Len(text) :
        /\ i + Len(keyword) - 1 <= Len(text)
        /\ \A j \in 1..Len(keyword) : LowerChar(text[i + j - 1]) = keyword[j]

\* the keyword occurs in the title or in the description
OccursInText(md, keyword) ==
    \/ "title" \in DOMAIN md /\ OccursIn(md.title, keyword)
    \/ "description" \in DOMAIN md /\ OccursIn(md.description, keyword)

\* the keywords of the list that occur, in the list's order
Occurring(md, keywords) == SelectSeq(keywords, LAMBDA k : OccursInText(md, k))

SameLettersAs(text, word) ==
    /\ Len(text) = Len(word)
    /\ \A j \in 1..Len(word) : LowerChar(text[j]) = word[j]

CategoryTriggered(md) ==
    /\ "category" \in DOMAIN md
    /\ \E c \in SuspiciousCategories : SameLettersAs(md.category, c)

DurationTriggered(md) ==
    /\ "duration_seconds" \in DOMAIN md
    /\ md.duration_seconds \in 1..59

\* the age contribution in tenths, target_age_max defaulting to 100
AgeTenths(md) ==
    LET t == IF "target_age_max" \in DOMAIN md THEN md.target_age_max ELSE 100
    IN  IF t <= 8 THEN 8 ELSE IF t <= 12 THEN 6 ELSE IF t <= 16 THEN 3 ELSE 0

\* the sum S of the contributions, in tenths
SumTenths(md) ==
    AgeTenths(md)
    + 3 * Len(Occurring(md, HighRiskKeywords))
    + Len(Occurring(md, MediumRiskKeywords))
    + (IF CategoryTriggered(md) THEN 2 ELSE 0)
    + (IF DurationTriggered(md) THEN 1 ELSE 0)

(* C6: risk_score is min(1.0, S), S the sum of one age contribution (0.8,    *)
(* 0.6, 0.3 or 0), 0.3 per distinct high-risk and 0.1 per distinct           *)
(* medium-risk keyword occurring case-insensitively in title+description,    *)
(* 0.2 for a suspicious lower-cased category and 0.1 for a duration in       *)
(* (0,60); missing fields take their defaults, so empty metadata gives score *)
(* 0, level MÍNIMO and no factors.                                           *)
C6_ScoreIsCappedSum ==
    Classified =>
        /\ IsTenths(risk.risk_score,
                    IF SumTenths(content_metadata) > 10 THEN 10
                    ELSE SumTenths(content_metadata))
        /\ content_metadata = EmptyDict =>
              /\ risk.risk_score = RInt(0)
              /\ risk.risk_level = "MÍNIMO"
              /\ risk.risk_factors = <<>>

\* 'kids' occurs in the title (as 'Kids') and in the description and counts once
C6_Witness ==
    /\ Classified
    /\ content_metadata = Metadata(<<Word_Kids>>, << <<"k","i","d","s">> >>, <<>>, <<>>, <<>>)
    /\ IsTenths(risk.risk_score, 3)

\* the factors the triggered rules give, in evaluation order
ExpectedFactors(md) ==
    LET high == Occurring(md, HighRiskKeywords)
        medium == Occurring(md, MediumRiskKeywords)
    IN  (IF AgeTenths(md) = 8 THEN << <<"Conteúdo para crianças muito pequenas", <<>>>> >>
         ELSE IF AgeTenths(md) = 6 THEN << <<"Conteúdo infantil", <<>>>> >>
         ELSE IF AgeTenths(md) = 3 THEN << <<"Conteúdo adolescente", <<>>>> >>
         ELSE <<>>)
        \o [i \in 1..Len(high) |-> <<"Palavra-chave de alto risco", high[i]>>]
        \o [i \in 1..Len(medium) |-> <<"Palavra-chave de médio risco", medium[i]>>]
        \o (IF CategoryTriggered(md)
            THEN << <<"Categoria suspeita", Lower(md.category)>> >> ELSE <<>>)
        \o (IF DurationTriggered(md) THEN << <<"Duração muito curta", <<>>>> >> ELSE <<>>)

\* {title 'bebê aprende', target_age_max 5, category 'kids', duration_seconds 30}
ExampleContent ==
    Metadata(<<Word_bebe \o <<" ">> \o Word_aprende>>, <<>>, <<5>>,
             << <<"k","i","d","s">> >>, <<30>>)

(* C7: risk_factors has exactly one entry per triggered rule, in evaluation  *)
(* order (age, high-risk keywords, medium-risk keywords, category,           *)
(* duration), and is not shortened when the score is capped; the example     *)
(* content yields level ALTO, score 1.0 and exactly 4 factors.               *)
C7_FactorsInEvaluationOrder ==
    Classified =>
        /\ risk.risk_factors = ExpectedFactors(content_metadata)
        /\ content_metadata = ExampleContent =>
              /\ risk.risk_level = "ALTO"
              /\ risk.risk_score = RInt(1)
              /\ Len(risk.risk_factors) = 4

\* the example content, whose sum 1.4 is capped
C7_Witness ==
    /\ Classified
    /\ content_metadata = ExampleContent
    /\ SumTenths(content_metadata) = 14
    /\ Len(risk.risk_factors) = 4

-----------------------------------------------------------------------------
(* Properties of the scorer (SpecScorer). *)

Detected == op.call = "detect_suspicious_content_patterns"

\* the users of the returned list
FlaggedIds == {suspicious_users[i].user_id : i \in 1..Len(suspicious_users)}

\* the record returned for a flagged user
RecordOf(u) ==
    suspicious_users[CHOOSE i \in 1..Len(suspicious_users) : suspicious_users[i].user_id = u]

Log(u) == user_profiles[u].content_consumed
AgeOf(u) == user_profiles[u].age

\* the interactions of u that are child content: by type, or by the
\* interaction's own target_age_max (100 when missing)
ChildEntries(u) ==
    {i \in 1..Len(Log(u)) :
        \/ Log(u)[i].content_type \in {"kids_video", "children_game", "educational_kids"}
        \/ (IF "target_age_max" \in DOMAIN Log(u)[i].metadata
            THEN Log(u)[i].metadata.target_age_max ELSE 100) < 13}

ChildCount(u) == Cardinality(ChildEntries(u))

\* max(0.1, 0.5 - (age - 25) * 0.02) in hundredths
ThresholdPercent(age) == IF 100 - 2 * age > 10 THEN 100 - 2 * age ELSE 10

\* child_content_ratio > threshold, over the integers
RatioAboveThreshold(u) == 100 * ChildCount(u) > ThresholdPercent(AgeOf(u)) * Len(Log(u))

Eligible(u) == AgeOf(u) >= 18 /\ Len(Log(u)) >= 1

(* C1: an eligible user (age >= 18, at least one interaction) is in the      *)
(* returned list iff child_content_ratio > max(0.1, 0.5 - (age-25)*0.02) and *)
(* child_content_count > 5, the count taken over the interactions whose type *)
(* is a child content type or whose own target_age_max (default 100) is < 13 *)
(* and the ratio being count / total; the threshold is 0.5 at age 25 and 0.1 *)
(* at age 55.                                                                *)
C1_FlaggedIffAboveThreshold ==
    Detected =>
        /\ \A u \in DOMAIN user_profiles :
              Eligible(u) =>
                  (u \in FlaggedIds <=> (RatioAboveThreshold(u) /\ ChildCount(u) > 5))
        /\ \A u \in FlaggedIds :
              /\ RecordOf(u).child_content_count = ChildCount(u)
              /\ RecordOf(u).total_content_count = Len(Log(u))
              /\ RecordOf(u).child_content_ratio = Frac(ChildCount(u), Len(Log(u)))
        /\ SuspicionThreshold(25) = Frac(1, 2)
        /\ SuspicionThreshold(55) = Frac(1, 10)

\* a user aged 25 with 6 child interactions of 12, child content by their
\* metadata only (ratio 0.5, not above the threshold 0.5), stays out while
\* another user is flagged
C1_Witness ==
    /\ Detected
    /\ FlaggedIds # {}
    /\ \E u \in DOMAIN user_profiles :
          /\ AgeOf(u) = 25 /\ ChildCount(u) = 6 /\ Len(Log(u)) = 12
          /\ \A i \in ChildEntries(u) : Log(u)[i].content_type \notin ChildContentTypes
          /\ u \notin FlaggedIds

Ineligible(u) == AgeOf(u) < 18 \/ Len(Log(u)) = 0

(* C2: a user with age < 18, or with zero interactions, is never scored:     *)
(* such a user never appears in the returned list and the run never writes   *)
(* that user's cached suspicious_score, whatever the interactions are.       *)
C2_IneligibleNeverScored ==
    Detected =>
        \A u \in DOMAIN user_profiles :
            Ineligible(u) =>
                /\ u \notin FlaggedIds
                /\ user_profiles[u].suspicious_score
                       = before.user_profiles[u].suspicious_score

\* a run has passed over a minor whose interactions, more than 5, are all
\* child content, and flagged someone else
C2_Witness ==
    /\ Detected
    /\ FlaggedIds # {}
    /\ \E u \in DOMAIN user_profiles :
          AgeOf(u) < 18 /\ ChildCount(u) > 5 /\ ChildCount(u) = Len(Log(u))
          /\ u \notin FlaggedIds

(* C3: for every flagged user the record's suspicion_score equals            *)
(* min(1, 2 * child_content_ratio), and after the run the user's cached      *)
(* suspicious_score equals exactly that value, whatever it held before.      *)
C3_ScoreCachedExactly ==
    Detected =>
        \A i \in 1..Len(suspicious_users) :
            LET rec == suspicious_users[i]
                twice == 2 * ChildCount(rec.user_id)
                total == Len(Log(rec.user_id))
            IN  /\ rec.suspicion_score =
                      (IF twice >= total THEN <<1, 1>> ELSE Frac(twice, total))
                /\ user_profiles[rec.user_id].suspicious_score = rec.suspicion_score

\* a run has replaced a cached score of an earlier run (neither 0 nor the new
\* value) by a new score below 1
C3_Witness ==
    /\ Detected
    /\ \E i \in 1..Len(suspicious_users) :
          LET rec == suspicious_users[i]
              earlier == before.user_profiles[rec.user_id].suspicious_score
          IN  /\ earlier # <<0, 1>>
              /\ earlier # rec.suspicion_score
              /\ rec.suspicion_score[1] < rec.suspicion_score[2]
              /\ user_profiles[rec.user_id].suspicious_score = rec.suspicion_score

\* the interactions of u whose metadata has target_age_max = t
Targeting(u, t) ==
    {i \in 1..Len(Log(u)) :
        "target_age_max" \in DOMAIN Log(u)[i].metadata
        /\ Log(u)[i].metadata.target_age_max = t}

\* U1: aged 45, 10 interactions, 8 of them targeting age_max 6, the others not
\* child content
IsU1(u) ==
    /\ AgeOf(u) = 45 /\ Len(Log(u)) = 10
    /\ Cardinality(Targeting(u, 6)) = 8
    /\ ChildEntries(u) = Targeting(u, 6)

\* U3: aged 30, 10 interactions, exactly 1 of them child content
IsU3(u) == AgeOf(u) = 30 /\ Len(Log(u)) = 10 /\ ChildCount(u) = 1

(* C4: end to end, a user of age 45 with 10 interactions of which 8 have     *)
(* metadata target_age_max = 6 is flagged with child_content_ratio 0.8 and   *)
(* suspicion_score 1.0; a user of age 30 with 10 interactions of which       *)
(* exactly 1 is child content has ratio 0.1 and is not flagged.              *)
C4_EndToEnd ==
    Detected =>
        \A u \in DOMAIN user_profiles :
            /\ IsU1(u) =>
                  /\ u \in FlaggedIds
                  /\ RecordOf(u).child_content_ratio = Frac(8, 10)
                  /\ RecordOf(u).suspicion_score = RInt(1)
            /\ IsU3(u) =>
                  /\ u \notin FlaggedIds
                  /\ Frac(CountChildContent(Log(u)), Len(Log(u))) = Frac(1, 10)

\* the run over the end-to-end store
C4_Witness ==
    /\ Detected
    /\ \E u \in DOMAIN user_profiles : IsU1(u) /\ u \in FlaggedIds
    /\ \E u \in DOMAIN user_profiles : IsU3(u) /\ u \notin FlaggedIds


\* this step is a scorer run that directly follows a scorer run
RunFollowsRun ==
    /\ op.call = "detect_suspicious_content_patterns"
    /\ op'.call = "detect_suspicious_content_patterns"

(* C19: the scorer is idempotent on unchanged input: of two consecutive runs *)
(* of detect_suspicious_content_patterns with no ingestion call in between,  *)
(* the second returns the same ranked list (users, field values, order) and  *)
(* leaves the store, cached scores included, as the first left it.           *)
C19_ScorerIdempotent ==
    [][RunFollowsRun =>
          /\ suspicious_users' = suspicious_users
          /\ user_profiles' = user_profiles
          /\ graph' = graph
          /\ content_data' = content_data
          /\ profile_order' = profile_order]_vars

\* after a second run in a row (the run found the scores already cached)
\* that returned two users, one of a score below 1
C19_Witness ==
    /\ Detected
    /\ before = Self
    /\ Len(suspicious_users) = 2
    /\ \E u \in FlaggedIds :
          /\ RLt(RecordOf(u).suspicion_score, RInt(1))
          /\ user_profiles[u].suspicious_score = RecordOf(u).suspicion_score

-----------------------------------------------------------------------------
(* The report: properties of SpecReport. *)

\* generate_risk_report has just returned its report
Reported == op.call = "generate_risk_report" /\ report.status = "returned"

\* a and b are joined by a connection
Joined(a, b) == {a, b} \in DOMAIN graph.edges

\* the flagged users and their direct neighbours
FlaggedAndNeighbours ==
    FlaggedIds \cup {m \in graph.nodes : \E n \in FlaggedIds : Joined(n, m)}

\* the users of `nodes` that a path through `nodes` joins to one of `near`
RECURSIVE JoinedTo(_, _)
JoinedTo(nodes, near) ==
    LET more == near \cup {m \in nodes : \E n \in near : Joined(n, m)}
    IN  IF more = near THEN near ELSE JoinedTo(nodes, more)

\* the connected components of the subgraph induced on `nodes`
Components(nodes) == {JoinedTo(nodes, {a}) : a \in nodes}

\* what an itemized entry tells of its component
Told(entry) ==
    [total_users |-> entry.total_users,
     suspicious_users |-> entry.suspicious_users,
     suspicious_user_ids |-> entry.suspicious_user_ids]

TellOf(component) ==
    [total_users |-> Cardinality(component),
     suspicious_users |-> Cardinality(component \cap FlaggedIds),
     suspicious_user_ids |-> component \cap FlaggedIds]

\* exactly a, b and c are flagged, a and b are connected, c has no connection
ABConnectedCIsolated(a, b, c) ==
    /\ FlaggedIds = {a, b, c}
    /\ Cardinality({a, b, c}) = 3
    /\ Joined(a, b)
    /\ \A e \in DOMAIN graph.edges : c \notin e

(* C8: the network analysis of a report is over the subgraph induced on the  *)
(* flagged users and their direct neighbours: connected_components is the    *)
(* number of its connected components, largest_component_size the size of    *)
(* the largest (0 without any), and components_analysis itemizes exactly the *)
(* components with at least 2 flagged users.  With flagged A and B connected *)
(* and flagged C isolated, connected_components = 2 and the only entry has   *)
(* suspicious_users = 2 and does not contain C.                              *)
C8_ComponentsCountedAndItemized ==
    Reported =>
        LET analysis == report.network_analysis
            components == Components(FlaggedAndNeighbours)
            itemized == {x \in components : Cardinality(x \cap FlaggedIds) >= 2}
        IN  /\ analysis.connected_components = Cardinality(components)
            /\ \A c \in components : Cardinality(c) <= analysis.largest_component_size
            /\ \/ \E c \in components : Cardinality(c) = analysis.largest_component_size
               \/ components = {} /\ analysis.largest_component_size = 0
            /\ {Told(e) : e \in analysis.components_analysis}
                  = {TellOf(c) : c \in itemized}
            /\ Cardinality(analysis.components_analysis) = Cardinality(itemized)
            /\ \A a, b, c \in FlaggedIds :
                  ABConnectedCIsolated(a, b, c) =>
                      /\ analysis.connected_components = 2
                      /\ Cardinality(analysis.components_analysis) = 1
                      /\ \A e \in analysis.components_analysis :
                            /\ e.suspicious_users = 2
                            /\ c \notin e.suspicious_user_ids

\* a report over flagged A and B connected and flagged C isolated, where the
\* component of C counts and is not itemized
C8_Witness ==
    /\ Reported
    /\ \E a, b, c \in FlaggedIds : ABConnectedCIsolated(a, b, c)
    /\ report.network_analysis.connected_components = 2
    /\ Cardinality(report.network_analysis.components_analysis) = 1


\* the users the flagging rule selects, from their profiles
RuleFlagged ==
    {u \in DOMAIN user_profiles :
        Eligible(u) /\ RatioAboveThreshold(u) /\ ChildCount(u) > 5}

\* suspicion_score > 0.7 over the integers
ScoreAboveSevenTenths(record) ==
    10 * record.suspicion_score[1] > 7 * record.suspicion_score[2]

(* C9: in a report, summary.suspicious_users_count is the length of the full *)
(* ranked flagged list, one entry for each user the rule flags, not of the   *)
(* (at most 20) entries of report.suspicious_users, and                      *)
(* summary.high_risk_users is the number of entries of the full list with    *)
(* suspicion_score strictly greater than 0.7.                                *)
C9_SummaryCountsFullList ==
    Reported =>
        /\ report.summary.suspicious_users_count = Len(suspicious_users)
        /\ report.summary.suspicious_users_count = Cardinality(RuleFlagged)
        /\ FlaggedIds = RuleFlagged
        /\ Len(report.suspicious_users) <= report.summary.suspicious_users_count
        /\ report.summary.high_risk_users
              = Cardinality({i \in 1..Len(suspicious_users) :
                                ScoreAboveSevenTenths(suspicious_users[i])})

\* a report that lists fewer users than it counts, with a flagged user of
\* score exactly 0.7 that is not counted as high risk
C9_Witness ==
    /\ Reported
    /\ report.summary.suspicious_users_count > Len(report.suspicious_users)
    /\ \E i \in 1..Len(suspicious_users) : suspicious_users[i].suspicion_score = Frac(7, 10)
    /\ report.summary.high_risk_users > 0
    /\ report.summary.high_risk_users < report.summary.suspicious_users_count

\* the smaller of two numbers
Least(a, b) == IF a < b THEN a ELSE b

\* the fields of a flagged user's record
RecordFields ==
    {"user_id", "age", "child_content_ratio", "child_content_count",
     "total_content_count", "suspicion_score", "connections_count"}

\* the connections of u, a connection to oneself counted twice
Connections(u) ==
    Cardinality({m \in graph.nodes : Joined(u, m)}) + (IF Joined(u, u) THEN 1 ELSE 0)

\* the centrality values of u
CentralityOf(u) ==
    [degree |-> IF Cardinality(graph.nodes) <= 1 THEN <<1, 1>>
                ELSE Frac(Connections(u), Cardinality(graph.nodes) - 1),
     betweenness |-> <<"betweenness_centrality", u>>,
     closeness |-> <<"closeness_centrality", u>>,
     eigenvector |-> <<"eigenvector_centrality", u>>]

(* C10: in every report, suspicious_users is the prefix of at most 20        *)
(* entries of the ranked flagged list (scores never increasing), and         *)
(* influential_suspicious holds the first min(10, n) entries of the ranked   *)
(* list in the same order, each with the record's fields and the user's      *)
(* degree, betweenness, closeness and eigenvector centrality.                *)
C10_TopListsArePrefixes ==
    Reported =>
        LET n == Len(suspicious_users)
            influential == report.influential_suspicious
        IN  /\ \A i \in 1..(n - 1) :
                  ~RLt(suspicious_users[i].suspicion_score,
                       suspicious_users[i + 1].suspicion_score)
            /\ Len(report.suspicious_users) = Least(20, n)
            /\ \A i \in 1..Len(report.suspicious_users) :
                  report.suspicious_users[i] = suspicious_users[i]
            /\ Len(influential) = Least(10, n)
            /\ \A i \in 1..Len(influential) :
                  /\ DOMAIN influential[i]
                        = RecordFields \cup {"degree", "betweenness", "closeness", "eigenvector"}
                  /\ \A f \in RecordFields : influential[i][f] = suspicious_users[i][f]
                  /\ \A f \in DOMAIN CentralityOf(influential[i].user_id) :
                        influential[i][f] = CentralityOf(influential[i].user_id)[f]

\* a report over more than 20 flagged users whose ranking moved the first
\* registered user out of both lists, the top user being connected
C10_Witness ==
    /\ Reported
    /\ Len(suspicious_users) > 20
    /\ Len(report.suspicious_users) = 20
    /\ Len(report.influential_suspicious) = 10
    /\ profile_order[1] \in FlaggedIds
    /\ \A i \in 1..20 : report.suspicious_users[i].user_id # profile_order[1]
    /\ report.influential_suspicious[1].degree # <<0, 1>>


-----------------------------------------------------------------------------
(* The store: properties of SpecStore. *)

\* the last call was this ingestion call
Called(name) == op.call = name

\* the analyzer object s but for the profile of user u and the content item c
ButFor(s, u, c) ==
    [graph |-> s.graph,
     profile_order |-> s.profile_order,
     user_profiles |-> [x \in DOMAIN s.user_profiles \ {u} |-> s.user_profiles[x]],
     content_data |-> [x \in DOMAIN s.content_data \ {c} |-> s.content_data[x]]]

\* the profile but for its interaction log
ButForLog(profile) == [f \in DOMAIN profile \ {"content_consumed"} |-> profile[f]]

\* the interactions stored on a content item of object s (none when absent)
InteractionsOn(s, c) ==
    IF c \in DOMAIN s.content_data THEN s.content_data[c].interactions ELSE <<>>

(* C11: add_content_interaction returns False iff the user id is not         *)
(* registered; then the store is unchanged.  Otherwise it appends exactly    *)
(* one interaction to the user's log and one to the content item's           *)
(* interaction list, the item being created first if absent, and changes     *)
(* nothing else.                                                             *)
C11_InteractionFailsIffUnknownUser ==
    Called("add_content_interaction") =>
        LET u == op.args[1]
            c == op.args[2]
        IN  /\ ok = FALSE <=> u \notin DOMAIN before.user_profiles
            /\ ok = FALSE => Self = before
            /\ ok = TRUE =>
                  /\ Len(user_profiles[u].content_consumed)
                        = Len(before.user_profiles[u].content_consumed) + 1
                  /\ SubSeq(user_profiles[u].content_consumed, 1,
                            Len(before.user_profiles[u].content_consumed))
                        = before.user_profiles[u].content_consumed
                  /\ LET last == user_profiles[u].content_consumed[Len(user_profiles[u].content_consumed)]
                     IN  /\ last.content_id = c
                         /\ last.content_type = op.args[3]
                         /\ last.interaction_type = op.args[4]
                  /\ ButForLog(user_profiles[u]) = ButForLog(before.user_profiles[u])
                  /\ c \in DOMAIN content_data
                  /\ content_data[c].interactions
                        = Append(InteractionsOn(before, c),
                                 [user_id |-> u, interaction_type |-> op.args[4]])
                  /\ c \in DOMAIN before.content_data =>
                        [content_data[c] EXCEPT !.interactions = <<>>]
                            = [before.content_data[c] EXCEPT !.interactions = <<>>]
                  /\ ButFor(Self, u, c) = ButFor(before, u, c)

\* a recorded interaction with a content item that another user's
\* interaction had created, after which an unregistered user's call fails
C11_Witness ==
    /\ Called("add_content_interaction")
    /\ ok = FALSE
    /\ \E c \in DOMAIN content_data :
          /\ Len(content_data[c].interactions) = 2
          /\ content_data[c].interactions[1].user_id # content_data[c].interactions[2].user_id


(* C12: add_connection with at least one unregistered endpoint is a no-op:   *)
(* the graph's nodes and edges, every user's connection list and all other   *)
(* store state are left unchanged.                                           *)
C12_ConnectionToUnknownIsNoOp ==
    (/\ Called("add_connection")
     /\ \/ op.args[1] \notin DOMAIN before.user_profiles
        \/ op.args[2] \notin DOMAIN before.user_profiles)
    => /\ graph = before.graph
       /\ user_profiles = before.user_profiles
       /\ profile_order = before.profile_order
       /\ content_data = before.content_data

\* a connection of registered user 1 with unregistered user 3, in a store
\* that holds a connection and an interaction
C12_Witness ==
    /\ Called("add_connection")
    /\ op.args[1] \in DOMAIN before.user_profiles
    /\ op.args[2] \notin DOMAIN before.user_profiles
    /\ DOMAIN graph.edges # {}
    /\ content_data # EmptyDict


\* the number of occurrences of x in a list
Occurrences(list, x) == Cardinality({i \in 1..Len(list) : list[i] = x})

(* C13: connections are symmetric in every reachable store state: for all    *)
(* registered users u and v, the number of occurrences of v in u's           *)
(* connection list equals the number of occurrences of u in v's.             *)
C13_ConnectionListsSymmetric ==
    \A u, v \in DOMAIN user_profiles :
        Occurrences(user_profiles[u].connections, v)
            = Occurrences(user_profiles[v].connections, u)


\* list a is a prefix of list b
IsPrefix(a, b) == Len(a) <= Len(b) /\ SubSeq(b, 1, Len(a)) = a

(* C15: across any ingestion call (add_user for an already registered id     *)
(* included) the set of registered user ids never shrinks, and each          *)
(* registered user's interaction log and connection list before the call is  *)
(* a prefix of its value after it.                                           *)
C15_UsersOnlyGrow ==
    \A u \in DOMAIN before.user_profiles :
        /\ u \in DOMAIN user_profiles
        /\ IsPrefix(before.user_profiles[u].content_consumed,
                    user_profiles[u].content_consumed)
        /\ IsPrefix(before.user_profiles[u].connections,
                    user_profiles[u].connections)

(* C16: every interaction is stored on both the user and the content item:   *)
(* in every reachable store state, for every user u and content c the        *)
(* number of entries for c in u's interaction log equals the number of       *)
(* entries with user_id u in content_data[c].interactions.                   *)
C16_InteractionsOnBothSides ==
    \A u \in DOMAIN user_profiles : \A c \in DOMAIN content_data :
        Cardinality({i \in 1..Len(user_profiles[u].content_consumed) :
                        user_profiles[u].content_consumed[i].content_id = c})
            = Cardinality({i \in 1..Len(content_data[c].interactions) :
                              content_data[c].interactions[i].user_id = u})

(* C17: every connection held in the graph has a weight in (0, 1] (in        *)
(* tenths: 1..10): an add_connection call whose weight is <= 0 or > 1 is     *)
(* rejected and stores no edge.                                              *)
C17_WeightsWithinUnitInterval ==
    /\ \A e \in DOMAIN graph.edges :
          graph.edges[e].weight > 0 /\ graph.edges[e].weight <= 10
    /\ (Called("add_connection") /\ (op.args[4] <= 0 \/ op.args[4] > 10))
          => Self = before

-----------------------------------------------------------------------------
(* Repeated connections: properties of SpecPair, where `calls` is the number *)
(* of add_connection calls made for the pair of users 1 and 2.               *)

\* the sum of the lengths of the connection lists
RECURSIVE ListedInAll(_)
ListedInAll(users) ==
    IF users = {} THEN 0
    ELSE LET u == CHOOSE x \in users : TRUE
         IN  Len(user_profiles[u].connections) + ListedInAll(users \ {u})

(* C14: after k >= 1 add_connection calls for the same pair of registered    *)
(* users the graph holds exactly one edge between them, with the kind and    *)
(* weight of the latest call, and each user's connection list holds k        *)
(* entries for the other; a suspicion record's connections_count counts the  *)
(* calls.                                                                    *)
C14_OneEdgeManyListEntries ==
    calls >= 1 =>
        /\ DOMAIN graph.edges = {{1, 2}}
        /\ Called("add_connection") =>
              graph.edges[{1, 2}]
                  = [connection_type |-> op.args[3], weight |-> op.args[4]]
        /\ Called("generate_risk_report") => graph.edges = before.graph.edges
        /\ Occurrences(user_profiles[1].connections, 2) = calls
        /\ Occurrences(user_profiles[2].connections, 1) = calls
        /\ Len(user_profiles[1].connections) = calls
        /\ Len(user_profiles[2].connections) = calls
        /\ Reported =>
              \A i \in 1..Len(report.suspicious_users) :
                  report.suspicious_users[i].user_id \in {1, 2}
                      => report.suspicious_users[i].connections_count = calls

\* a report after 3 calls for the pair: one connection in the summary, six
\* list entries, records that count 3 connections
C14_Witness ==
    /\ Reported
    /\ calls = 3
    /\ report.summary.total_connections = 1
    /\ ListedInAll(DOMAIN user_profiles) > 2 * report.summary.total_connections
    /\ \E i \in 1..Len(report.suspicious_users) :
          report.suspicious_users[i].connections_count = 3


-----------------------------------------------------------------------------
(* The analyses: properties of SpecAnalyses. *)

\* the last call was an analysis
Analysed ==
    op.call \in {"detect_suspicious_content_patterns", "generate_risk_report",
                 "detect_content_consumption_clusters"}

\* the profile but for its cached score
ButForScore(profile) == [f \in DOMAIN profile \ {"suspicious_score"} |-> profile[f]]

(* C18: all analyses are read-only on the store except the score write-back: *)
(* an analysis leaves the graph, content_data and every field of every user  *)
(* profile unchanged, other than suspicious_score; in particular it adds no  *)
(* key to a user profile.                                                    *)
C18_AnalysesOnlyWriteScore ==
    Analysed =>
        /\ graph = before.graph
        /\ content_data = before.content_data
        /\ profile_order = before.profile_order
        /\ DOMAIN user_profiles = DOMAIN before.user_profiles
        /\ \A u \in DOMAIN user_profiles :
              /\ DOMAIN user_profiles[u] = DOMAIN before.user_profiles[u]
              /\ ButForScore(user_profiles[u]) = ButForScore(before.user_profiles[u])


-----------------------------------------------------------------------------
(* Overlapping runs: properties of SpecOverlap. *)

\* every run has returned
AllReturned == \A r \in Runs : runs[r].returned

(* C20: overlapping scorer runs over a quiesced store are safe: however the *)
(* iterations of the runs interleave, each run returns the list a single    *)
(* sequential run on the loaded store returns, and once all have returned   *)
(* every user's cached suspicious_score is the one a single run leaves.     *)
C20_OverlappingRunsSafe ==
    LET single == detect_suspicious_content_patterns(before)
    IN  /\ \A r \in Runs : runs[r].returned => runs[r].result = single.returned
        /\ AllReturned =>
              \A u \in DOMAIN user_profiles :
                 user_profiles[u].suspicious_score =
                     single.self.user_profiles[u].suspicious_score

\* all runs have returned, each made an iteration while another was inside
\* its loop, and the list returned has two users, the later registered first
C20_Witness ==
    /\ AllReturned
    /\ \A r \in Runs :
          /\ runs[r].overlapped
          /\ Len(runs[r].result) = 2
          /\ runs[r].result[1].user_id > runs[r].result[2].user_id

-----------------------------------------------------------------------------
(* Degenerate graphs, ranking and recommendations: properties of SpecReport. *)

(* C21: degenerate-graph conditions never abort a report run: on every      *)
(* store, the empty one and those on which the eigenvector computation does *)
(* not converge included, generate_risk_report returns a report instead of  *)
(* letting an error reach the caller.                                        *)
C21_ReportNeverAborts ==
    Called("generate_risk_report") => report.status = "returned"

-----------------------------------------------------------------------------
(* Ranking: properties of SpecAnalyses. *)

\* the place of user u in the iteration order of self.user_profiles
PlaceOf(u) == CHOOSE i \in 1..Len(profile_order) : profile_order[i] = u

(* C22: the list returned by detect_suspicious_content_patterns is sorted by *)
(* suspicion_score, never increasing, and two flagged users of equal score   *)
(* appear in discovery order: the order in which the store iterates their    *)
(* profiles.                                                                 *)
C22_SortedTiesInDiscoveryOrder ==
    Detected =>
        \A i, j \in 1..Len(suspicious_users) :
            i < j =>
                /\ ~RLt(suspicious_users[i].suspicion_score,
                        suspicious_users[j].suspicion_score)
                /\ suspicious_users[i].suspicion_score = suspicious_users[j].suspicion_score
                      => PlaceOf(suspicious_users[i].user_id)
                             < PlaceOf(suspicious_users[j].user_id)

\* a returned list of three: two users of equal score in discovery order,
\* then the user discovered first, of a lower score
C22_Witness ==
    /\ Detected
    /\ Len(suspicious_users) = 3
    /\ suspicious_users[1].suspicion_score = suspicious_users[2].suspicion_score
    /\ RLt(suspicious_users[3].suspicion_score, suspicious_users[2].suspicion_score)
    /\ PlaceOf(suspicious_users[3].user_id) < PlaceOf(suspicious_users[1].user_id)
    /\ PlaceOf(suspicious_users[1].user_id) < PlaceOf(suspicious_users[2].user_id)

\* the users aged 45 that a scorer run does not skip
AgedFortyFive == {u \in DOMAIN user_profiles : AgeOf(u) = 45 /\ Len(Log(u)) >= 1}

(* C23 as stated: for a user of age 45 the threshold against which          *)
(* child_content_ratio is compared is approximately 0.4 (within 0.05).      *)
C23_ThresholdNearFourTenths ==
    (Detected /\ AgedFortyFive # {}) =>
        /\ RLe(Frac(35, 100), SuspicionThreshold(45))
        /\ RLe(SuspicionThreshold(45), Frac(45, 100))

(* C23, amended: for a user of age 45 the threshold against which           *)
(* child_content_ratio is compared is 0.1, the floor of                     *)
(* max(0.1, 0.5 - (age - 25) * 0.02): such a user is flagged iff their      *)
(* ratio is above 0.1 and their child content count above 5.                *)
C23_ThresholdAtFortyFive ==
    (Detected /\ AgedFortyFive # {}) =>
        /\ SuspicionThreshold(45) = Frac(1, 10)
        /\ \A u \in AgedFortyFive :
              u \in FlaggedIds <=>
                  (10 * ChildCount(u) > Len(Log(u)) /\ ChildCount(u) > 5)

\* a user aged 45 is flagged with a ratio of 0.35, below 0.4
C23_Witness ==
    /\ Detected
    /\ \E u \in AgedFortyFive \cap FlaggedIds :
          RecordOf(u).child_content_ratio = Frac(35, 100)

-----------------------------------------------------------------------------
(* Recommendations: properties of SpecReport. *)

\* the tags of the recommendations of the report, in their order
Tags == [i \in 1..Len(report.recommendations) |-> report.recommendations[i][1]]

\* the condition under which each recommendation is due
Due(tag) ==
    IF tag = "ALERTA" THEN Len(suspicious_users) > 10
    ELSE IF tag = "PRIORIDADE ALTA"
    THEN \E i \in 1..Len(suspicious_users) :
            RLt(Frac(7, 10), suspicious_users[i].suspicion_score)
    ELSE IF tag = "REDES IDENTIFICADAS"
    THEN report.network_analysis.connected_components > 0
    ELSE \E entry \in report.network_analysis.components_analysis :
            entry.suspicious_users >= 3

(* C24: the recommendations of a report come from fixed thresholds, in this *)
(* order and with no other entries: ALERTA iff more than 10 users are       *)
(* flagged, PRIORIDADE ALTA iff a flagged user has a score above 0.7, REDES *)
(* IDENTIFICADAS iff connected_components > 0, REDES COMPLEXAS iff an       *)
(* itemized component has 3 or more flagged users.                          *)
C24_RecommendationsFromThresholds ==
    Reported =>
        Tags = SelectSeq(<<"ALERTA", "PRIORIDADE ALTA", "REDES IDENTIFICADAS",
                           "REDES COMPLEXAS">>, Due)

\* a report with all four recommendations
C24_Witness ==
    /\ Reported
    /\ Len(report.recommendations) = 4
    /\ Len(suspicious_users) = 11

\* a report with no recommendation, and one with the third only
C24_WitnessNone == Reported /\ report.recommendations = <<>> /\ user_profiles # <<>>
C24_WitnessThirdOnly == Reported /\ Tags = <<"REDES IDENTIFICADAS">>

-----------------------------------------------------------------------------
(* The behaviour analyzer: properties of SpecPatterns. *)

Patterned == Called("analyze_user_content_patterns")

\* the content_data argument of the last analyzer call
Passed == Without(content_data, op.args[1])

\* the interactions of u whose content item is in the argument
ResolvableEntries(u) == {i \in 1..Len(Log(u)) : Log(u)[i].content_id \in DOMAIN Passed}

\* the classification of the content item of interaction i of u
RiskOf(u, i) == classify_content_risk(Passed[Log(u)[i].content_id].metadata)

\* the sum of the risk scores of the content of the given interactions of u
RECURSIVE RiskSum(_, _)
RiskSum(u, entries) ==
    IF entries = {} THEN RInt(0)
    ELSE LET i == CHOOSE x \in entries : TRUE
         IN  RAdd(RiskOf(u, i).risk_score, RiskSum(u, entries \ {i}))

\* how many interactions of u have the value v in the field
CountOf(u, field, v) == Cardinality({i \in 1..Len(Log(u)) : Log(u)[i][field] = v})

\* the histogram tallies every interaction of u, resolvable or not
TalliesAll(u, histogram, field) ==
    /\ DOMAIN histogram = {Log(u)[i][field] : i \in 1..Len(Log(u))}
    /\ \A v \in DOMAIN histogram : histogram[v] = CountOf(u, field, v)

(* C25: in analyze_user_content_patterns a user's average risk score is the *)
(* mean of the classifier's risk_score over the user's resolvable           *)
(* interactions only (content id present in the content_data argument):     *)
(* interactions on missing content add neither to the sum nor to the        *)
(* divisor, and are still tallied in the content-type and interaction-kind  *)
(* histograms.                                                              *)
C25_MeanOverResolvable ==
    Patterned =>
        \A u \in DOMAIN user_patterns :
            /\ ResolvableEntries(u) # {} =>
                  user_patterns[u].avg_risk_score
                      = RMul(RiskSum(u, ResolvableEntries(u)),
                             Frac(1, Cardinality(ResolvableEntries(u))))
            /\ TalliesAll(u, user_patterns[u].content_types, "content_type")
            /\ TalliesAll(u, user_patterns[u].interaction_types, "interaction_type")

\* the interactions of u whose content classifies MÉDIO or ALTO
HighRiskEntries(u) ==
    {i \in ResolvableEntries(u) : RiskOf(u, i).risk_level \in {"MÉDIO", "ALTO"}}

\* the interactions of u made in school time, among those with a timestamp
TimedEntries(u) == {i \in 1..Len(Log(u)) : "timestamp" \in DOMAIN Log(u)[i]}
SchoolEntries(u) ==
    {i \in TimedEntries(u) :
        /\ Log(u)[i].timestamp.hour \in 8..17
        /\ Log(u)[i].timestamp.weekday \in 0..4}

TypesOf(u) == {Log(u)[i].content_type : i \in 1..Len(Log(u))}

\* the conditions of the four indicators; high_risk_ratio is the number of
\* HighRiskEntries over the number of all interactions
AdultHighRisk(u) ==
    AgeOf(u) >= 18 /\ 10 * Cardinality(HighRiskEntries(u)) > 3 * Len(Log(u))
SchoolHours(u) ==
    10 * Cardinality(SchoolEntries(u)) > 6 * Cardinality(TimedEntries(u))
ManyActions(u) ==
    /\ CountOf(u, "interaction_type", "download") + CountOf(u, "interaction_type", "share") > 5
    /\ 10 * Cardinality(HighRiskEntries(u)) > 2 * Len(Log(u))
NarrowFocus(u) ==
    /\ Cardinality(TypesOf(u)) <= 2
    /\ Len(Log(u)) > 10
    /\ TypesOf(u) \cap {"kids_video", "children_game", "educational_kids"} # {}

\* the indicator of this tag is among the suspicious_indicators of u
Indicated(u, tag) ==
    \E i \in 1..Len(user_patterns[u].suspicious_indicators) :
        user_patterns[u].suspicious_indicators[i][1] = tag

(* C26: the four suspicious-indicator checks of the behaviour analyzer are  *)
(* evaluated independently, each adding its indicator iff its own condition *)
(* holds, whatever the others do: (1) age >= 18 and high_risk_ratio > 0.3;  *)
(* (2) school_time_ratio > 0.6; (3) downloads + shares > 5 and              *)
(* high_risk_ratio > 0.2; (4) at most 2 content types, more than 10         *)
(* interactions and a child content type among the types.                   *)
C26_IndicatorsIndependent ==
    Patterned =>
        \A u \in DOMAIN user_patterns :
            /\ Indicated(u, "Adulto") <=> AdultHighRisk(u)
            /\ Indicated(u, "Alto consumo em horário escolar") <=> SchoolHours(u)
            /\ Indicated(u, "ações de download/compartilhamento") <=> ManyActions(u)
            /\ Indicated(u, "Consumo muito focado") <=> NarrowFocus(u)

\* the indicators of user 1 are exactly those of the set of numbers
Combination(numbers) ==
    /\ Patterned
    /\ 1 \in DOMAIN user_patterns
    /\ Indicated(1, "Adulto") <=> 1 \in numbers
    /\ Indicated(1, "Alto consumo em horário escolar") <=> 2 \in numbers
    /\ Indicated(1, "ações de download/compartilhamento") <=> 3 \in numbers
    /\ Indicated(1, "Consumo muito focado") <=> 4 \in numbers

\* a user with all four indicators
C26_Witness == Combination({1, 2, 3, 4})

\* users with the later indicators and not the earlier ones
C26_WitnessSecondOnly == Combination({2})
C26_WitnessThirdAndFourth == Combination({3, 4})
C26_WitnessFourthOnly == Combination({4})
C26_WitnessFirstOnly == Combination({1})

-----------------------------------------------------------------------------
(* The cached score: properties of SpecScorer. *)

(* C27: a scorer run writes the cached suspicious_score of the users it     *)
(* flags only and never resets one: a user flagged by an earlier run and,   *)
(* after further add_content_interaction calls, not by a later one keeps    *)
(* the (non-zero) score of the earlier run while absent from the later      *)
(* run's list.                                                              *)
C27_ScoreKeptWhenNotFlagged ==
    Detected =>
        \A u \in DOMAIN user_profiles :
            IF u \in FlaggedIds
            THEN user_profiles[u].suspicious_score = RecordOf(u).suspicion_score
            ELSE user_profiles[u].suspicious_score = before.user_profiles[u].suspicious_score

\* after a run that does not flag a user whose cached score is not 0: an
\* earlier run flagged them, an interaction since brought their ratio down
C27_Witness ==
    /\ Detected
    /\ calls > 0
    /\ \E u \in DOMAIN user_profiles \ FlaggedIds :
          /\ RLt(RInt(0), user_profiles[u].suspicious_score)
          /\ ChildCount(u) > 5

-----------------------------------------------------------------------------
(* First write wins: properties of SpecCatalog (one user, never registered  *)
(* again, so the first entry of the log on an item is the first             *)
(* interaction on it).                                                      *)

\* the first interaction of user u on content item c
FirstOn(u, c) ==
    Log(u)[CHOOSE i \in 1..Len(Log(u)) :
              /\ Log(u)[i].content_id = c
              /\ \A j \in 1..(i - 1) : Log(u)[j].content_id # c]

\* the levels of the interactions of u, each classified by the metadata of
\* the first interaction on its content item
LevelsByFirstSeen(u) ==
    [i \in 1..Len(Log(u)) |->
        [risk_level |->
            classify_content_risk(FirstOn(u, Log(u)[i].content_id).metadata).risk_level]]

(* C28: content catalog entries are first-write-wins: content_type and      *)
(* metadata of content_data[c] are those of the first successful            *)
(* add_content_interaction for c and later interactions on c with another   *)
(* type or metadata change neither (only the interactions list grows); so   *)
(* the behaviour analyzer classifies an interaction by the first-seen       *)
(* metadata of its item, while the scorer counts it by the metadata the     *)
(* interaction itself carries.                                              *)
C28_FirstWriteWins ==
    /\ \A c \in DOMAIN content_data :
          /\ content_data[c].content_type = FirstOn(1, c).content_type
          /\ content_data[c].metadata = FirstOn(1, c).metadata
    /\ Called("add_content_interaction") =>
          \A c \in DOMAIN before.content_data :
              IsPrefix(before.content_data[c].interactions, content_data[c].interactions)
    /\ Patterned =>
          \A u \in DOMAIN user_patterns :
              user_patterns[u].risk_distribution = Tally(LevelsByFirstSeen(u), "risk_level")
    /\ Detected =>
          \A u \in FlaggedIds : RecordOf(u).child_content_count = ChildCount(u)

\* the item was first seen as a plain video and then 6 times as a video for
\* small children: the scorer has flagged the user with 6 child interactions
\* of 7, and the analyzer, run after it, finds no interaction of any risk
C28_Witness ==
    /\ Patterned
    /\ content_data["c_clip"].metadata = EmptyDict
    /\ Len(suspicious_users) = 1
    /\ suspicious_users[1].child_content_count = 6
    /\ suspicious_users[1].total_content_count = Len(Log(1))
    /\ DOMAIN user_patterns[1].risk_distribution = {"MÍNIMO"}
    /\ user_patterns[1].risk_distribution["MÍNIMO"] = 7

-----------------------------------------------------------------------------
(* Graph nodes and registered users: properties of SpecGrow. *)

(* C29: in every store state reached by add_user, add_connection and        *)
(* add_content_interaction calls the node set of the graph is the set of    *)
(* registered user ids and both endpoints of every edge are registered; so  *)
(* every flagged user is a graph node (analyze_suspicious_networks looks up *)
(* no missing node) and no flagged user of the top 10 is dropped from       *)
(* influential_suspicious for lack of a centrality entry.                   *)
C29_NodesAreRegisteredUsers ==
    /\ graph.nodes = DOMAIN user_profiles
    /\ \A e \in DOMAIN graph.edges : e \subseteq DOMAIN user_profiles
    /\ Called("generate_risk_report") => FlaggedIds \subseteq graph.nodes
    /\ Reported =>
          /\ Len(report.influential_suspicious) = Least(10, Len(suspicious_users))
          /\ \A i \in 1..Len(report.influential_suspicious) :
                report.influential_suspicious[i].user_id = suspicious_users[i].user_id

\* a report over 11 flagged users, 10 of them in influential_suspicious,
\* after user 30 was registered and connected to user 1
C29_Witness ==
    /\ Reported
    /\ {1, 30} \in DOMAIN graph.edges
    /\ Len(suspicious_users) = 11
    /\ Len(report.influential_suspicious) = 10

\* a connection to the unregistered user 31 was asked for and left no node
C29_WitnessRejected ==
    /\ Called("add_connection")
    /\ op.args[2] = 31
    /\ 31 \notin graph.nodes

-----------------------------------------------------------------------------
(* Components and the third recommendation: properties of SpecReport. *)

\* the report recommends looking into groups of connected suspicious users
NetworksIdentified ==
    \E i \in 1..Len(report.recommendations) :
        report.recommendations[i][1] = "REDES IDENTIFICADAS"

(* C30: connected_components of the network analysis is > 0 exactly when a  *)
(* user is flagged, and largest_component_size is 0 exactly when none is;   *)
(* so the REDES IDENTIFICADAS recommendation is emitted whenever a user is  *)
(* flagged, also when components_analysis is empty because no component     *)
(* holds two flagged users.                                                 *)
C30_ComponentsIffFlagged ==
    Reported =>
        /\ report.network_analysis.connected_components > 0 <=> FlaggedIds # {}
        /\ report.network_analysis.largest_component_size = 0 <=> FlaggedIds = {}
        /\ NetworksIdentified <=> FlaggedIds # {}

\* flagged users without a connection: nothing itemized, and the
\* recommendation is made
C30_Witness ==
    /\ Reported
    /\ Cardinality(FlaggedIds) = 2
    /\ graph.edges = EmptyDict
    /\ report.network_analysis.components_analysis = {}
    /\ report.network_analysis.connected_components = 2
    /\ NetworksIdentified

\* no user flagged: no component and no such recommendation
C30_WitnessNone ==
    /\ Reported
    /\ FlaggedIds = {}
    /\ report.network_analysis.connected_components = 0
    /\ ~NetworksIdentified

=============================================================================
